---- MODULE Spec2Model ----
(***************************************************************************)
(* A model of the resource-identity core of rust-voxels:                   *)
(*   src/src/sparse_set.rs  SparseSet (the handle arena)                   *)
(*   src/src/resource.rs    ResourceReferenceManager (reference counts and *)
(*                          the delayed-eviction queue), ResourceHandle    *)
(*                          (the counted wrapper) and ResourceManager.     *)
(*   src/src/render_graph.rs and render_graph/  RenderGraph, the builder   *)
(*                          of the frame graph, with its HandleMap         *)
(*                          registries.                                    *)
(*   src/src/render_graph/compiled_graph.rs  CompiledGraph, the compiler   *)
(*                          that walks the frame graph.                    *)
(*                                                                         *)
(* Seven specifications share the variables:                               *)
(*   SpecSet   one SparseSet driven by push / remove / get_mut / clear     *)
(*   SpecRef   one ResourceReferenceManager driven by its own methods      *)
(*             create / activate / deactivate / upkeep                     *)
(*   Spec      one ResourceManager driven by its public API and by the     *)
(*             clone and drop of the ResourceHandle wrappers it hands out  *)
(*   SpecThreads  threads cloning and dropping ResourceHandle wrappers of  *)
(*             one resource, step by step under the RwLock                 *)
(*   SpecGraph one RenderGraph driven by add_resource and add_render_pass  *)
(*   SpecCompile  one RenderGraph built by add_shader, add_pipeline,       *)
(*             add_resource and add_render_pass, and render_from_graph     *)
(*             called on it                                                *)
(*   SpecNames one RenderGraph driven by add_resource with repeated names  *)
(* A panic (unwrap on None, expect, index out of bounds) ends the run: the *)
(* variable panicked records it and no operation is enabled afterwards.    *)
(***************************************************************************)
EXTENDS Integers, Sequences, FiniteSets, Bags, TLC

(***************************************************************************)
(* Bounds of the model.                                                    *)
(***************************************************************************)
\* SparseSet::new(length) of the stand-alone set of SpecSet
Capacity == 3
\* payloads pushed into the stand-alone set are 1..MaxValue
MaxValue == 2
\* handles the reference manager is called with in SpecRef are 1..MaxHandle
MaxHandle == 2
\* SpecRef: no call raises a reference_count above MaxRefs; Spec: no more
\* than MaxRefs wrappers of one resource are alive at a time
MaxRefs == 2
\* no deactivate is issued while the inactive heap holds MaxQueue entries
MaxQueue == 3
\* Instant::now() ranges over 0..MaxTime (seconds)
MaxTime == 5
\* the lifetime classes create is called with in the bounded runs: "Long"
\* (300 s) is left out, it does within MaxTime what "Medium" (60 s) does
LifetimeInputs == {"None", "Short", "Medium", "Forever"}
\* the const generic MAX_RESOURCES the ResourceManager of Spec is built with
MAX_RESOURCES == 3
\* ResourceManager::create is called at most MaxCreate times in Spec
MaxCreate == 3
\* threads sharing one reference manager, and the clones they make in a run
NumThreads == 3
MaxClones == 3
\* calls of add_resource and of add_render_pass in a run, attachments of a pass
MaxAddResource == 1
MaxPasses == 2
MaxAttachments == 2
\* SpecCompile: the calls of add_pipeline and of add_resource in a run
MaxPipelines == 1
\* SpecCompile: the calls of add_shader in a run
MaxShaders == 1
MaxCompileResources == 2
\* SpecCompile: the calls of add_resource and add_render_pass in a run
MaxCompileVertices == 3
\* SpecNames: the calls of add_resource in a run
MaxNamedResources == 4

(***************************************************************************)
(* Option<T>                                                               *)
(***************************************************************************)
None == [is_some |-> FALSE, value |-> 0]

Some(v) == [is_some |-> TRUE, value |-> v]

(***************************************************************************)
(* SparseSet<T> (src/src/sparse_set.rs).  An ElementHandle is its usize.   *)
(* sparse is a function on 0..length (length + 1 entries), dense and       *)
(* dense_objects are sequences; a dense position p (0-based, as stored in  *)
(* sparse) is the sequence index p + 1.                                    *)
(***************************************************************************)
SparseSet_new(length) ==
    [sparse        |-> [i \in 0..length |-> length],
     dense         |-> <<>>,
     dense_objects |-> <<>>,
     tombstone     |-> length]

\* element < tombstone && sparse[element].0 < dense.len() && sparse[element] != tombstone
SparseSet_contains(s, element) ==
    /\ element < s.tombstone
    /\ s.sparse[element] < Len(s.dense)
    /\ s.sparse[element] # s.tombstone

SparseSet_len(s) == Len(s.dense)

SparseSet_get(s, element) ==
    IF ~SparseSet_contains(s, element)
    THEN None
    ELSE Some(s.dense_objects[s.sparse[element] + 1])

\* get_mut followed by a write of v through the returned reference
SparseSet_get_mut(s, element, v) ==
    IF ~SparseSet_contains(s, element)
    THEN [set |-> s, ret |-> None]
    ELSE [set |-> [s EXCEPT !.dense_objects[s.sparse[element] + 1] = v],
          ret |-> Some(s.dense_objects[s.sparse[element] + 1])]

\* push that writes the new value over the value of a contained handle
SparseSet_push_overwrites(s, element_id, element) ==
    IF SparseSet_contains(s, element_id)
    THEN [set |-> [s EXCEPT !.dense_objects[s.sparse[element_id] + 1] = element],
          panicked |-> ""]
    ELSE LET pos == Len(s.dense)
             grown == [s EXCEPT !.dense = Append(s.dense, element_id),
                                !.dense_objects = Append(s.dense_objects, element)]
         IN  IF element_id \notin DOMAIN s.sparse
             THEN [set |-> grown, panicked |-> "index out of bounds"]
             ELSE LET written == [grown EXCEPT !.sparse[element_id] = pos]
                  IN  IF SparseSet_contains(written, element_id)
                      THEN [set |-> written, panicked |-> ""]
                      ELSE [set |-> written, panicked |-> "unwrap on None"]

\* push: result.panicked is "" or the panic that ended the call; result.set is
\* the set as the call left it (a panic leaves the writes made before it).
SparseSet_push(s, element_id, element) ==
    IF SparseSet_contains(s, element_id)
    THEN [set |-> s, panicked |-> ""]
    ELSE LET pos == Len(s.dense)
             grown == [s EXCEPT !.dense = Append(s.dense, element_id),
                                !.dense_objects = Append(s.dense_objects, element)]
         IN  IF element_id \notin DOMAIN s.sparse
             THEN [set |-> grown, panicked |-> "index out of bounds"]
             ELSE LET written == [grown EXCEPT !.sparse[element_id] = pos]
                  IN  IF SparseSet_contains(written, element_id)
                      THEN [set |-> written, panicked |-> ""]
                      ELSE [set |-> written, panicked |-> "unwrap on None"]

SwapSeq(seq, i, j) == [seq EXCEPT ![i] = seq[j], ![j] = seq[i]]

\* remove that leaves the sparse entry of the moved element as it was
SparseSet_remove_unpatched(s, element_id) ==
    IF ~SparseSet_contains(s, element_id)
    THEN [set |-> s, ret_handle |-> s.tombstone, ret_value |-> None]
    ELSE LET size == Len(s.dense) - 1
             p    == s.sparse[element_id]
             d1   == SwapSeq(s.dense, size + 1, p + 1)
             o1   == SwapSeq(s.dense_objects, size + 1, p + 1)
         IN  [set |-> [s EXCEPT !.sparse[element_id] = s.tombstone,
                                !.dense = SubSeq(d1, 1, size),
                                !.dense_objects = SubSeq(o1, 1, size)],
              ret_handle |-> d1[size + 1],
              ret_value  |-> Some(o1[size + 1])]

\* remove that pops the last dense element without the two swaps
SparseSet_remove_pops_last(s, element_id) ==
    IF ~SparseSet_contains(s, element_id)
    THEN [set |-> s, ret_handle |-> s.tombstone, ret_value |-> None]
    ELSE LET size == Len(s.dense) - 1
             last == s.dense[Len(s.dense)]
             sp1  == [s.sparse EXCEPT ![last] = s.sparse[element_id],
                                      ![element_id] = s.sparse[last]]
             sp2  == [sp1 EXCEPT ![element_id] = s.tombstone]
         IN  [set |-> [s EXCEPT !.sparse = sp2,
                                !.dense = SubSeq(s.dense, 1, size),
                                !.dense_objects = SubSeq(s.dense_objects, 1, size)],
              ret_handle |-> s.dense[size + 1],
              ret_value  |-> Some(s.dense_objects[size + 1])]

\* remove that swaps dense and not dense_objects
SparseSet_remove_objects_unswapped(s, element_id) ==
    IF ~SparseSet_contains(s, element_id)
    THEN [set |-> s, ret_handle |-> s.tombstone, ret_value |-> None]
    ELSE LET size == Len(s.dense) - 1
             last == s.dense[Len(s.dense)]
             p    == s.sparse[element_id]
             d1   == SwapSeq(s.dense, size + 1, p + 1)
             sp1  == [s.sparse EXCEPT ![last] = s.sparse[element_id],
                                      ![element_id] = s.sparse[last]]
             sp2  == [sp1 EXCEPT ![element_id] = s.tombstone]
         IN  [set |-> [s EXCEPT !.sparse = sp2,
                                !.dense = SubSeq(d1, 1, size),
                                !.dense_objects = SubSeq(s.dense_objects, 1, size)],
              ret_handle |-> d1[size + 1],
              ret_value  |-> Some(s.dense_objects[size + 1])]

\* remove: swap-remove of the dense arrays, the moved element's sparse entry
\* patched.  ret_handle / ret_value are the returned pair.
SparseSet_remove(s, element_id) ==
    IF ~SparseSet_contains(s, element_id)
    THEN [set |-> s, ret_handle |-> s.tombstone, ret_value |-> None]
    ELSE LET size == Len(s.dense) - 1
             last == s.dense[Len(s.dense)]
             p    == s.sparse[element_id]
             d1   == SwapSeq(s.dense, size + 1, p + 1)
             o1   == SwapSeq(s.dense_objects, size + 1, p + 1)
             sp1  == [s.sparse EXCEPT ![last] = s.sparse[element_id],
                                      ![element_id] = s.sparse[last]]
             sp2  == [sp1 EXCEPT ![element_id] = s.tombstone]
         IN  [set |-> [s EXCEPT !.sparse = sp2,
                                !.dense = SubSeq(d1, 1, size),
                                !.dense_objects = SubSeq(o1, 1, size)],
              ret_handle |-> d1[size + 1],
              ret_value  |-> Some(o1[size + 1])]

\* clear that empties the dense arrays and leaves sparse as it was
SparseSet_clear_keeps_sparse(s) ==
    [s EXCEPT !.dense = <<>>,
              !.dense_objects = <<>>]

SparseSet_clear(s) ==
    [s EXCEPT !.dense = <<>>,
              !.dense_objects = <<>>,
              !.sparse = [i \in DOMAIN s.sparse |-> s.tombstone]]

\* sparse.iter().filter(|s| **s != self.tombstone).copied().collect():
\* the entries of sparse (dense positions) that are not the tombstone, in
\* index order.
SparseSet_get_all_elements(s) ==
    SelectSeq([i \in 1..(s.tombstone + 1) |-> s.sparse[i - 1]],
              LAMBDA x : x # s.tombstone)

(***************************************************************************)
(* ResourceLifetime and ResourceReferenceManager::LIFETIMES                *)
(* (src/src/resource.rs).  Time is in seconds.  Duration::MAX is beyond    *)
(* any span an Instant can be advanced by: DurationMax and InstantMax      *)
(* stand for u64::MAX seconds and for the largest Instant, scaled to the   *)
(* integers of the model checker with their order kept                     *)
(* (now + 300 < InstantMax < DurationMax).                                 *)
(***************************************************************************)
ResourceLifetime == {"None", "Short", "Medium", "Long", "Forever"}

DurationMax == 2000000

InstantMax == 1000000

LIFETIMES(lifetime) ==
    CASE lifetime = "None"    -> 0
      [] lifetime = "Short"   -> 3
      [] lifetime = "Medium"  -> 60
      [] lifetime = "Long"    -> 5 * 60
      [] lifetime = "Forever" -> DurationMax

\* Instant::checked_add: None when the sum is not representable
Instant_checked_add(instant, duration) ==
    IF duration > InstantMax - instant THEN None ELSE Some(instant + duration)

(***************************************************************************)
(* ResourceReference and its Ord (src/src/resource.rs 292-330).            *)
(***************************************************************************)
ResourceReference(reference_count, resource, lifetime, deletion_time) ==
    [reference_count |-> reference_count,
     resource        |-> resource,
     lifetime        |-> lifetime,
     deletion_time   |-> deletion_time]

\* the ordering with the comparison of two deletion times reversed
ResourceReference_cmp_reversed(self, other) ==
    IF ~self.deletion_time.is_some THEN "Greater"
    ELSE IF ~other.deletion_time.is_some THEN "Less"
    ELSE IF self.deletion_time.value > other.deletion_time.value THEN "Less"
    ELSE IF self.deletion_time.value = other.deletion_time.value THEN "Equal"
    ELSE "Greater"

\* impl Ord for ResourceReference: cmp
ResourceReference_cmp(self, other) ==
    IF ~self.deletion_time.is_some THEN "Greater"
    ELSE IF ~other.deletion_time.is_some THEN "Less"
    ELSE IF self.deletion_time.value < other.deletion_time.value THEN "Less"
    ELSE IF self.deletion_time.value = other.deletion_time.value THEN "Equal"
    ELSE "Greater"

\* a <= b as PartialOrd derives it from partial_cmp = Some(cmp)
ResourceReference_le(a, b) == ResourceReference_cmp(a, b) # "Greater"

(***************************************************************************)
(* inactive_resources: BinaryHeap<ResourceReference>, the max-heap of the  *)
(* standard library over the Ord above, as the array it keeps (position p, *)
(* 0-based, is sequence index p + 1; the root is index 1).                 *)
(***************************************************************************)
RECURSIVE BinaryHeap_sift_up(_, _, _)
BinaryHeap_sift_up(data, start, pos) ==
    IF pos > start
    THEN LET parent == (pos - 1) \div 2
         IN  IF ResourceReference_le(data[pos + 1], data[parent + 1])
             THEN data
             ELSE BinaryHeap_sift_up(SwapSeq(data, pos + 1, parent + 1), start, parent)
    ELSE data

BinaryHeap_push(data, item) ==
    BinaryHeap_sift_up(Append(data, item), 0, Len(data))

RECURSIVE BinaryHeap_sift_down_to_bottom(_, _, _)
BinaryHeap_sift_down_to_bottom(data, start, pos) ==
    LET end   == Len(data)
        child == 2 * pos + 1
    IN  IF end >= 2 /\ child <= end - 2
        THEN LET c == IF ResourceReference_le(data[child + 1], data[child + 2])
                      THEN child + 1 ELSE child
             IN  BinaryHeap_sift_down_to_bottom(SwapSeq(data, pos + 1, c + 1), start, c)
        ELSE IF child = end - 1
        THEN BinaryHeap_sift_up(SwapSeq(data, pos + 1, child + 1), start, child)
        ELSE BinaryHeap_sift_up(data, start, pos)

BinaryHeap_peek(data) == IF Len(data) = 0 THEN None ELSE Some(data[1])

\* pop of a non-empty heap: the array after the root was taken out
BinaryHeap_pop(data) ==
    LET item == data[Len(data)]
        rest == SubSeq(data, 1, Len(data) - 1)
    IN  IF Len(rest) = 0
        THEN rest
        ELSE BinaryHeap_sift_down_to_bottom([rest EXCEPT ![1] = item], 0, 0)

(***************************************************************************)
(* ResourceReferenceManager (src/src/resource.rs 209-290).  A manager is a *)
(* record m of its three fields; every method returns the manager as the   *)
(* call left it and the panic that ended it ("" when it returned).         *)
(*   all_resources      HashMap: a function whose domain is the key set    *)
(*   active_resources   HashSet of ResourceReference, equal by resource    *)
(*   inactive_resources the heap array                                     *)
(***************************************************************************)
ResourceReferenceManager_new ==
    [all_resources      |-> <<>>,
     active_resources   |-> {},
     inactive_resources |-> <<>>]

\* HashSet::contains / insert / remove under Eq and Hash by resource alone;
\* insert keeps the element already stored
HashSet_contains(set_, ref) == \E r \in set_ : r.resource = ref.resource

HashSet_insert(set_, ref) == IF HashSet_contains(set_, ref) THEN set_ ELSE set_ \cup {ref}

HashSet_remove(set_, ref) == {r \in set_ : r.resource # ref.resource}

HashMap_remove(map, key) == [k \in (DOMAIN map) \ {key} |-> map[k]]

ResourceReferenceManager_activate(m, resource) ==
    IF resource \notin DOMAIN m.all_resources
    THEN [m |-> m, panicked |-> "Resource must be created before it is activated"]
    ELSE LET all == [m.all_resources EXCEPT
                        ![resource].reference_count = @ + 1]
         IN  [m |-> [m EXCEPT !.all_resources = all,
                              !.active_resources =
                                  HashSet_insert(m.active_resources, all[resource])],
              panicked |-> ""]

ResourceReferenceManager_create(m, resource, lifetime) ==
    IF resource \notin DOMAIN m.all_resources
    THEN ResourceReferenceManager_activate(
             [m EXCEPT !.all_resources =
                 (resource :> ResourceReference(0, resource, lifetime, None)) @@ @],
             resource)
    ELSE ResourceReferenceManager_activate(m, resource)

\* deactivate without the removal from the active set
ResourceReferenceManager_deactivate_keeps_active(m, resource, instant_now) ==
    IF resource \notin DOMAIN m.all_resources
    THEN [m |-> m, panicked |-> "Resource must be created before handle can be dropped"]
    ELSE IF m.all_resources[resource].reference_count = 0
    THEN [m |-> m, panicked |-> "attempt to subtract with overflow"]
    ELSE LET all == [m.all_resources EXCEPT ![resource].reference_count = @ - 1]
             proto == all[resource]
         IN  IF proto.reference_count = 0
             THEN [m |-> [m EXCEPT
                     !.all_resources = all,
                     !.inactive_resources = BinaryHeap_push(@,
                         ResourceReference(proto.reference_count, proto.resource,
                             proto.lifetime,
                             Instant_checked_add(instant_now, LIFETIMES(proto.lifetime))))],
                   panicked |-> ""]
             ELSE [m |-> [m EXCEPT !.all_resources = all], panicked |-> ""]

\* deactivate that stamps the entry with the time of the call, the delay dropped
ResourceReferenceManager_deactivate_no_delay(m, resource, instant_now) ==
    IF resource \notin DOMAIN m.all_resources
    THEN [m |-> m, panicked |-> "Resource must be created before handle can be dropped"]
    ELSE IF m.all_resources[resource].reference_count = 0
    THEN [m |-> m, panicked |-> "attempt to subtract with overflow"]
    ELSE LET all == [m.all_resources EXCEPT ![resource].reference_count = @ - 1]
             proto == all[resource]
         IN  IF proto.reference_count = 0
             THEN [m |-> [m EXCEPT
                     !.all_resources = all,
                     !.active_resources = HashSet_remove(@, proto),
                     !.inactive_resources = BinaryHeap_push(@,
                         ResourceReference(proto.reference_count, proto.resource,
                             proto.lifetime, Some(instant_now)))],
                   panicked |-> ""]
             ELSE [m |-> [m EXCEPT !.all_resources = all], panicked |-> ""]

\* deactivate(resource) with Instant::now() = instant_now.  reference_count is
\* a u64: the decrement of a zero count panics (overflow checks on), and no
\* caller of the model issues it.
ResourceReferenceManager_deactivate(m, resource, instant_now) ==
    IF resource \notin DOMAIN m.all_resources
    THEN [m |-> m, panicked |-> "Resource must be created before handle can be dropped"]
    ELSE IF m.all_resources[resource].reference_count = 0
    THEN [m |-> m, panicked |-> "attempt to subtract with overflow"]
    ELSE LET all == [m.all_resources EXCEPT ![resource].reference_count = @ - 1]
             proto == all[resource]
         IN  IF proto.reference_count = 0
             THEN [m |-> [m EXCEPT
                     !.all_resources = all,
                     !.active_resources = HashSet_remove(@, proto),
                     !.inactive_resources = BinaryHeap_push(@,
                         ResourceReference(proto.reference_count, proto.resource,
                             proto.lifetime,
                             Instant_checked_add(instant_now, LIFETIMES(proto.lifetime))))],
                   panicked |-> ""]
             ELSE [m |-> [m EXCEPT !.all_resources = all], panicked |-> ""]

\* the loop of upkeep without the look-up in active_resources
RECURSIVE ResourceReferenceManager_upkeep_unchecked(_, _, _)
ResourceReferenceManager_upkeep_unchecked(m, instant_now, out) ==
    LET top == BinaryHeap_peek(m.inactive_resources)
    IN  IF ~top.is_some
        THEN [m |-> m, resources_to_delete |-> out, panicked |-> ""]
        ELSE IF ~top.value.deletion_time.is_some
        THEN [m |-> m, resources_to_delete |-> <<>>, panicked |-> "unwrap on None"]
        ELSE IF top.value.deletion_time.value <= instant_now
        THEN ResourceReferenceManager_upkeep_unchecked(
                 [m EXCEPT
                    !.all_resources = HashMap_remove(@, top.value.resource),
                    !.inactive_resources = BinaryHeap_pop(@)],
                 instant_now,
                 Append(out, top.value.resource))
        ELSE [m |-> m, resources_to_delete |-> out, panicked |-> ""]

\* the while loop of upkeep, resources_to_delete accumulated in out
RECURSIVE ResourceReferenceManager_upkeep_loop(_, _, _)
ResourceReferenceManager_upkeep_loop(m, instant_now, out) ==
    LET top == BinaryHeap_peek(m.inactive_resources)
    IN  IF ~top.is_some
        THEN [m |-> m, resources_to_delete |-> out, panicked |-> ""]
        ELSE IF ~top.value.deletion_time.is_some
        THEN [m |-> m, resources_to_delete |-> <<>>, panicked |-> "unwrap on None"]
        ELSE IF top.value.deletion_time.value <= instant_now
        THEN LET resource == top.value
                 expired  == ~HashSet_contains(m.active_resources, resource)
             IN  ResourceReferenceManager_upkeep_loop(
                     [m EXCEPT
                        !.all_resources =
                            IF expired THEN HashMap_remove(@, resource.resource) ELSE @,
                        !.inactive_resources = BinaryHeap_pop(@)],
                     instant_now,
                     IF expired THEN Append(out, resource.resource) ELSE out)
        ELSE [m |-> m, resources_to_delete |-> out, panicked |-> ""]

\* upkeep() with Instant::now() = instant_now
ResourceReferenceManager_upkeep(m, instant_now) ==
    ResourceReferenceManager_upkeep_loop(m, instant_now, <<>>)

(***************************************************************************)
(* ResourceHandle<R> and ResourceManager<R, H> (src/src/resource.rs        *)
(* 14-192).  A manager is a record rm of its fields, reference_manager the *)
(* record of the ResourceReferenceManager behind the Arc<RwLock>, and      *)
(* destroyed the resources handed to handler.destroy so far.  A resource R *)
(* is the serial number of the handler.create call that made it.  A        *)
(* ResourceMetaData is [uuid, lifetime, name, path], name and path an      *)
(* Option of a number that stands for the string or the PathBuf.           *)
(***************************************************************************)
RESOURCES_TO_DESTROY_PER_UPKEEP == 10

ResourceManager_new(max_resources) ==
    [last_resource_id          |-> 0,
     resource_id_map           |-> <<>>,
     name_id_map               |-> <<>>,
     path_id_map               |-> <<>>,
     resources                 |-> SparseSet_new(max_resources),
     resources_being_destroyed |-> <<>>,
     reference_manager         |-> ResourceReferenceManager_new,
     destroyed                 |-> <<>>]

\* ResourceHandle::new: activate, then the wrapper
ResourceHandle_new(reference_manager, resource_handle) ==
    ResourceReferenceManager_activate(reference_manager, resource_handle)

\* Clone for ResourceHandle
ResourceHandle_clone(reference_manager, resource_handle) ==
    ResourceReferenceManager_activate(reference_manager, resource_handle)

\* Drop for ResourceHandle
ResourceHandle_drop(reference_manager, resource_handle, instant_now) ==
    ResourceReferenceManager_deactivate(reference_manager, resource_handle, instant_now)

\* create_resource_handle, the manager's reference_manager updated
ResourceManager_create_resource_handle(rm, element) ==
    LET r == ResourceHandle_new(rm.reference_manager, element)
    IN  [rm |-> [rm EXCEPT !.reference_manager = r.m],
         handle |-> element,
         panicked |-> r.panicked]

\* create up to the end of the statement that registers the resource with
\* the reference manager (171-185): the write guard taken at 185 is released
\* there, before create_resource_handle takes the lock again
ResourceManager_create_registered(rm, meta_resource) ==
    LET resource_id == rm.last_resource_id + 1
        rm1 == [rm EXCEPT !.last_resource_id = resource_id,
                          !.resource_id_map = (meta_resource.uuid :> resource_id) @@ @]
        pushed == SparseSet_push(rm1.resources, resource_id, resource_id)
        rm2 == [rm1 EXCEPT !.resources = pushed.set]
    IN  IF pushed.panicked # ""
        THEN [rm |-> rm2, handle |-> resource_id, panicked |-> pushed.panicked]
        ELSE LET rm3 == IF meta_resource.name.is_some
                        THEN [rm2 EXCEPT !.name_id_map =
                                 (meta_resource.name.value :> meta_resource.uuid) @@ @]
                        ELSE rm2
                 rm4 == IF meta_resource.path.is_some
                        THEN [rm3 EXCEPT !.path_id_map =
                                 (meta_resource.path.value :> meta_resource.uuid) @@ @]
                        ELSE rm3
                 created == ResourceReferenceManager_create(
                                rm4.reference_manager, resource_id, meta_resource.lifetime)
             IN  [rm |-> [rm4 EXCEPT !.reference_manager = created.m],
                  handle |-> resource_id,
                  panicked |-> created.panicked]

\* create (171-187) with no step of another thread between 185 and 186
ResourceManager_create(rm, meta_resource) ==
    LET registered == ResourceManager_create_registered(rm, meta_resource)
    IN  IF registered.panicked # ""
        THEN registered
        ELSE ResourceManager_create_resource_handle(registered.rm, registered.handle)

ResourceManager_get_from_uuid(rm, uuid) ==
    IF uuid \notin DOMAIN rm.resource_id_map
    THEN [rm |-> rm, handle |-> 0, panicked |-> "unwrap on None"]
    ELSE ResourceManager_create_resource_handle(rm, rm.resource_id_map[uuid])

\* get_from_path: path_id_map.get(&path_buf).unwrap(), then get_from_uuid
ResourceManager_get_from_path(rm, path) ==
    IF path \notin DOMAIN rm.path_id_map
    THEN [rm |-> rm, handle |-> 0, panicked |-> "unwrap on None"]
    ELSE ResourceManager_get_from_uuid(rm, rm.path_id_map[path])

\* get_from_name: name_id_map.get(&name_str).unwrap(), then get_from_uuid
ResourceManager_get_from_name(rm, name) ==
    IF name \notin DOMAIN rm.name_id_map
    THEN [rm |-> rm, handle |-> 0, panicked |-> "unwrap on None"]
    ELSE ResourceManager_get_from_uuid(rm, rm.name_id_map[name])

\* the first loop of upkeep over the handles the reference manager returned
RECURSIVE ResourceManager_upkeep_remove(_, _)
ResourceManager_upkeep_remove(rm, reported) ==
    IF Len(reported) = 0
    THEN [rm |-> rm, panicked |-> ""]
    ELSE LET removed == SparseSet_remove(rm.resources, Head(reported))
             rm1 == [rm EXCEPT !.resources = removed.set]
         IN  IF ~removed.ret_value.is_some
             THEN [rm |-> rm1, panicked |-> "unwrap on None"]
             ELSE ResourceManager_upkeep_remove(
                      IF Len(rm1.resources_being_destroyed) = RESOURCES_TO_DESTROY_PER_UPKEEP
                      THEN [rm1 EXCEPT !.destroyed = Append(@, removed.ret_value.value)]
                      ELSE [rm1 EXCEPT !.resources_being_destroyed =
                                           Append(@, removed.ret_value.value)],
                      Tail(reported))

\* the second loop of upkeep: n times pop the buffer and destroy
RECURSIVE ResourceManager_upkeep_drain(_, _)
ResourceManager_upkeep_drain(rm, n) ==
    IF n = 0
    THEN rm
    ELSE LET buffer == rm.resources_being_destroyed
         IN  ResourceManager_upkeep_drain(
                 [rm EXCEPT !.resources_being_destroyed = SubSeq(buffer, 1, Len(buffer) - 1),
                            !.destroyed = Append(@, buffer[Len(buffer)])],
                 n - 1)

Min(a, b) == IF a <= b THEN a ELSE b

\* the first loop of upkeep (134-144), run while the write guard of 134 is
\* held: reference_manager.upkeep() and the removal of what it returned
ResourceManager_upkeep_locked(rm, instant_now) ==
    LET r == ResourceReferenceManager_upkeep(rm.reference_manager, instant_now)
        rm1 == [rm EXCEPT !.reference_manager = r.m]
    IN  IF r.panicked # ""
        THEN [rm |-> rm1, panicked |-> r.panicked, reported |-> <<>>]
        ELSE LET first == ResourceManager_upkeep_remove(rm1, r.resources_to_delete)
             IN  [rm |-> first.rm, panicked |-> first.panicked,
                  reported |-> r.resources_to_delete]

\* the number of turns of the second loop (146)
ResourceManager_upkeep_turns(rm) ==
    Min(RESOURCES_TO_DESTROY_PER_UPKEEP, Len(rm.resources_being_destroyed))

\* the loop of Drop for ResourceManager over get_all_elements()
RECURSIVE ResourceManager_drop_loop(_, _)
ResourceManager_drop_loop(rm, elements) ==
    IF Len(elements) = 0
    THEN [rm |-> rm, panicked |-> ""]
    ELSE LET removed == SparseSet_remove(rm.resources, Head(elements))
             rm1 == [rm EXCEPT !.resources = removed.set]
         IN  IF ~removed.ret_value.is_some
             THEN [rm |-> rm1, panicked |-> "unwrap on None"]
             ELSE ResourceManager_drop_loop(
                      [rm1 EXCEPT !.destroyed = Append(@, removed.ret_value.value)],
                      Tail(elements))

ResourceManager_drop(rm) ==
    ResourceManager_drop_loop(rm, SparseSet_get_all_elements(rm.resources))

(***************************************************************************)
(* The render graph builder (src/src/render_graph.rs and render_graph/).   *)
(* A Uuid is a number; uuids counts the calls of Uuid::new_v4 so far and   *)
(* every call returns a uuid no earlier call returned.  A Handle is its    *)
(* Uuid.  A name (a &str or String) is a number.                           *)
(***************************************************************************)
\* a generator whose uuids are not fresh
Uuid_new_v4_fixed(uuids) == 1

Uuid_new_v4(uuids) == uuids + 1

\* HandleType::new for Handle: Handle(Uuid::new_v4())
HandleType_new(uuids) == Uuid_new_v4(uuids)

\* HandleMap<HandleT, T> (render_graph/handle_map.rs): HashMaps as functions
HandleMap_new ==
    [string_map           |-> <<>>,
     handle_map           |-> <<>>,
     handle_to_string_map |-> <<>>]

\* add, handle being the result of HandleT::new()
HandleMap_add(hm, handle, object, string_id) ==
    LET inserted == [hm EXCEPT !.handle_map = (handle :> object) @@ @]
    IN  IF string_id.is_some
        THEN [inserted EXCEPT !.string_map = (string_id.value :> handle) @@ @,
                              !.handle_to_string_map = (handle :> string_id.value) @@ @]
        ELSE inserted

HandleMap_get_from_handle(hm, handle) ==
    IF handle \in DOMAIN hm.handle_map THEN Some(hm.handle_map[handle]) ELSE None

HandleMap_get_from_string(hm, string_id) ==
    IF string_id \in DOMAIN hm.string_map
    THEN HandleMap_get_from_handle(hm, hm.string_map[string_id])
    ELSE None

HandleMap_get_string_from_handle(hm, handle) ==
    IF handle \in DOMAIN hm.handle_to_string_map
    THEN Some(hm.handle_to_string_map[handle])
    ELSE None

\* PassResource (render_graph/pass_builder.rs)
OnlyInput(resource) == [kind |-> "OnlyInput", resource |-> Some(resource)]

OnlyOutput(resource) == [kind |-> "OnlyOutput", resource |-> resource]

InputAndOutput(resource) == [kind |-> "InputAndOutput", resource |-> Some(resource)]

PassResource_is_output(a) == a.kind \in {"OnlyOutput", "InputAndOutput"}

PassResource_is_input(a) == a.kind \in {"InputAndOutput", "OnlyInput"}

PassResource_is_new_resource(a) ==
    IF a.kind = "OnlyOutput" THEN ~a.resource.is_some ELSE FALSE

PassResource_resource_handle(a) == a.resource

\* RenderPassBuilder: render_pass(pipeline) and the builder methods applied
RenderPassBuilder(label, colours, depth, vertices, indices, pipeline) ==
    [label              |-> label,
     colour_attachments |-> colours,
     depth_stencil      |-> depth,
     vertex_buffer      |-> vertices,
     index_buffer       |-> indices,
     pipeline           |-> pipeline]

\* Option::iter
Option_iter(o) == IF o.is_some THEN <<o.value>> ELSE <<>>

\* Resource (render_graph/resource.rs)
Resource_Persistent(global_id, string_id) ==
    [kind |-> "Persistent", global_id |-> global_id, string_id |-> string_id]

Resource_Dynamic(uuid) ==
    [kind |-> "Dynamic", global_id |-> uuid, string_id |-> None]

Resource_into_persistent(resource) ==
    Resource_Persistent(resource.global_id,
                        IF resource.kind = "Persistent" THEN resource.string_id ELSE None)

\* Vertex and VertexHandle (render_graph.rs 21-40)
Vertex_Red(resource_handle) == [colour |-> "Red", handle |-> resource_handle]

Vertex_Blue(pass_handle) == [colour |-> "Blue", handle |-> pass_handle]

VertexHandle_new_from_node(node_index, handle) ==
    [node_index |-> node_index, handle |-> handle]

\* petgraph Graph<Vertex, ()>: the node weights in index order (NodeIndex i
\* is sequence index i + 1) and the edges <<from, to>> in insertion order
Graph_new == [nodes |-> <<>>, edges |-> <<>>]

Graph_add_node(g, v) == [g EXCEPT !.nodes = Append(@, v)]

Graph_add_edge(g, from, to) == [g EXCEPT !.edges = Append(@, <<from, to>>)]

\* RenderGraphMeta (render_graph.rs 50-72)
RenderGraphMeta_new ==
    [forward_graph |-> Graph_new,
     reverse_graph |-> Graph_new]

\* add_node: the index returned is the one reverse_graph.add_node returns
RenderGraphMeta_add_node(meta, v) ==
    [graph |-> [forward_graph |-> Graph_add_node(meta.forward_graph, v),
                reverse_graph |-> Graph_add_node(meta.reverse_graph, v)],
     node_index |-> Len(meta.reverse_graph.nodes)]

\* an add_edge that gives both graphs the edge in the same direction
RenderGraphMeta_add_edge_unreversed(meta, from, to) ==
    [forward_graph |-> Graph_add_edge(meta.forward_graph, from, to),
     reverse_graph |-> Graph_add_edge(meta.reverse_graph, from, to)]

RenderGraphMeta_add_edge(meta, from, to) ==
    [forward_graph |-> Graph_add_edge(meta.forward_graph, from, to),
     reverse_graph |-> Graph_add_edge(meta.reverse_graph, to, from)]

\* RenderGraph (render_graph.rs 80-99), with the uuid generator it draws on
RenderGraph_new ==
    [shaders           |-> HandleMap_new,
     pipelines         |-> HandleMap_new,
     passes            |-> HandleMap_new,
     resources         |-> HandleMap_new,
     graph             |-> RenderGraphMeta_new,
     vertex_handle_map |-> <<>>,
     uuids             |-> 0]

\* add_resource: register the resource under a new handle, add its vertex
RenderGraph_add_resource(rg, resource) ==
    LET resource_handle == HandleType_new(rg.uuids)
        registered == HandleMap_add(rg.resources, resource_handle, resource,
                          IF resource.kind = "Persistent" THEN resource.string_id
                          ELSE None)
        added == RenderGraphMeta_add_node(rg.graph, Vertex_Red(resource_handle))
        resource_vertex_handle ==
            VertexHandle_new_from_node(added.node_index, resource_handle)
    IN  [rg |-> [rg EXCEPT !.uuids = resource_handle,
                           !.resources = registered,
                           !.graph = added.graph,
                           !.vertex_handle_map =
                               (resource_handle :> resource_vertex_handle) @@ @],
         vertex |-> resource_vertex_handle]

\* colour_attachments, then depth_stencil, vertex_buffer, index_buffer
RenderGraph_resource_iter(pass) ==
    pass.colour_attachments \o Option_iter(pass.depth_stencil)
        \o Option_iter(pass.vertex_buffer) \o Option_iter(pass.index_buffer)

\* new_outputs (130-135): a Dynamic resource per new output, each added to
\* the registry as it is made
RECURSIVE RenderGraph_new_outputs(_, _, _)
RenderGraph_new_outputs(rg, attachments, out) ==
    IF Len(attachments) = 0
    THEN [rg |-> rg, resources |-> out]
    ELSE LET a == Head(attachments)
         IN  IF PassResource_is_output(a) /\ PassResource_is_new_resource(a)
             THEN LET uuid == Uuid_new_v4(rg.uuids)
                      resource == Resource_Dynamic(uuid)
                      handle == HandleType_new(uuid)
                  IN  RenderGraph_new_outputs(
                          [rg EXCEPT !.uuids = handle,
                                     !.resources = HandleMap_add(@, handle, resource, None)],
                          Tail(attachments), Append(out, resource))
             ELSE RenderGraph_new_outputs(rg, Tail(attachments), out)

\* existing_outputs (138-143): the registered resources the outputs name
RECURSIVE RenderGraph_existing_outputs(_, _)
RenderGraph_existing_outputs(rg, attachments) ==
    IF Len(attachments) = 0
    THEN <<>>
    ELSE LET a == Head(attachments)
             rest == RenderGraph_existing_outputs(rg, Tail(attachments))
         IN  IF /\ PassResource_is_output(a)
                /\ PassResource_resource_handle(a).is_some
                /\ HandleMap_get_from_handle(
                       rg.resources, PassResource_resource_handle(a).value).is_some
             THEN <<HandleMap_get_from_handle(
                        rg.resources, PassResource_resource_handle(a).value).value>>
                      \o rest
             ELSE rest

\* .map(|resource| self.add_resource(*resource)).collect()
RECURSIVE RenderGraph_add_resources(_, _, _)
RenderGraph_add_resources(rg, resources_, out) ==
    IF Len(resources_) = 0
    THEN [rg |-> rg, vertices |-> out]
    ELSE LET added == RenderGraph_add_resource(rg, Head(resources_))
         IN  RenderGraph_add_resources(added.rg, Tail(resources_),
                                       Append(out, added.vertex))

\* for vertex_handle in outputs: add_edge(pass_node, vertex_handle.node_index)
RECURSIVE RenderGraph_edges_from_pass(_, _, _)
RenderGraph_edges_from_pass(meta, pass_node, vertices) ==
    IF Len(vertices) = 0
    THEN meta
    ELSE RenderGraph_edges_from_pass(
             RenderGraphMeta_add_edge(meta, pass_node, Head(vertices).node_index),
             pass_node, Tail(vertices))

\* for_each(|vertex_handle| add_edge(vertex_handle.node_index, pass_node))
RECURSIVE RenderGraph_edges_to_pass(_, _, _)
RenderGraph_edges_to_pass(meta, pass_node, vertices) ==
    IF Len(vertices) = 0
    THEN meta
    ELSE RenderGraph_edges_to_pass(
             RenderGraphMeta_add_edge(meta, Head(vertices).node_index, pass_node),
             pass_node, Tail(vertices))

\* an add_render_pass that attaches no input to the pass
RenderGraph_input_vertices_none(rg, attachments) == <<>>

\* 160-162: the vertices registered for the handles the attachments carry
RECURSIVE RenderGraph_input_vertices(_, _)
RenderGraph_input_vertices(rg, attachments) ==
    IF Len(attachments) = 0
    THEN <<>>
    ELSE LET a == Head(attachments)
             rest == RenderGraph_input_vertices(rg, Tail(attachments))
         IN  IF /\ PassResource_resource_handle(a).is_some
                /\ PassResource_resource_handle(a).value \in DOMAIN rg.vertex_handle_map
             THEN <<rg.vertex_handle_map[PassResource_resource_handle(a).value]>> \o rest
             ELSE rest

\* new_outputs.iter().map(|r| r.into_persistent())
Resources_into_persistent(resources_) ==
    [i \in 1..Len(resources_) |-> Resource_into_persistent(resources_[i])]

\* add_render_pass (119-174); result.vertex and result.outputs are the pair
\* returned
RenderGraph_add_render_pass(rg, pass) ==
    LET pass_handle == HandleType_new(rg.uuids)
        rg1 == [rg EXCEPT !.uuids = pass_handle,
                          !.passes = HandleMap_add(@, pass_handle, pass, pass.label)]
        pass_added == RenderGraphMeta_add_node(rg1.graph, Vertex_Blue(pass_handle))
        pass_node == pass_added.node_index
        rg2 == [rg1 EXCEPT !.graph = pass_added.graph]
        resource_iter == RenderGraph_resource_iter(pass)
        new_outputs == RenderGraph_new_outputs(rg2, resource_iter, <<>>)
        existing_outputs == RenderGraph_existing_outputs(new_outputs.rg, resource_iter)
        existing_added == RenderGraph_add_resources(new_outputs.rg, existing_outputs, <<>>)
        new_added == RenderGraph_add_resources(existing_added.rg, new_outputs.resources,
                                               <<>>)
        outputs == existing_added.vertices \o new_added.vertices
        rg3 == [new_added.rg EXCEPT !.graph =
                   RenderGraph_edges_from_pass(@, pass_node, outputs)]
        rg4 == [rg3 EXCEPT !.graph =
                   RenderGraph_edges_to_pass(@, pass_node,
                       RenderGraph_input_vertices(rg3, resource_iter))]
        persistent_added == RenderGraph_add_resources(
                                rg4, Resources_into_persistent(new_outputs.resources),
                                <<>>)
        rg5 == [persistent_added.rg EXCEPT !.graph =
                   RenderGraph_edges_to_pass(@, pass_node, persistent_added.vertices)]
        pass_vertex_handle == VertexHandle_new_from_node(pass_node, pass_handle)
    IN  [rg |-> [rg5 EXCEPT !.vertex_handle_map =
                                (pass_handle :> pass_vertex_handle) @@ @],
         vertex |-> pass_vertex_handle,
         outputs |-> outputs,
         existing |-> Len(existing_added.vertices)]

\* ShaderRepresentation::shader(): a representation without stages
ShaderRepresentation_shader == 0

\* add_shader (101-103)
RenderGraph_add_shader(rg, shader, id) ==
    LET handle == HandleType_new(rg.uuids)
    IN  [rg |-> [rg EXCEPT !.uuids = handle,
                           !.shaders = HandleMap_add(@, handle, shader, id)],
         handle |-> handle]

\* PipelineInfo (74-78)
PipelineInfo(builder, vertex_shader, fragment_shader) ==
    [builder |-> builder, vertex_shader |-> vertex_shader, fragment_shader |-> fragment_shader]

\* add_pipeline (105-117)
RenderGraph_add_pipeline(rg, layout, vertex_shader, fragment_shader, id) ==
    LET handle == HandleType_new(rg.uuids)
    IN  [rg |-> [rg EXCEPT !.uuids = handle,
                           !.pipelines = HandleMap_add(@, handle,
                               PipelineInfo(layout, vertex_shader, fragment_shader), id)],
         handle |-> handle]

(***************************************************************************)
(* The compiler (src/src/render_graph/compiled_graph.rs).  The objects the *)
(* graphics backend makes are opaque: a HashMap of them is the set of its  *)
(* keys, and device counts the calls that make them.  The record c a walk  *)
(* carries holds the CompiledGraph, the local pipeline_layouts (102), the  *)
(* calls made, the node indices visited, and the panic that ended the call *)
(* with the source line it came from.                                      *)
(***************************************************************************)
\* the nodes of remaining no edge from a node of remaining leads to
Graph_sources(g, remaining) ==
    {n \in remaining :
        \A i \in DOMAIN g.edges : g.edges[i][2] = n => g.edges[i][1] \notin remaining}

Graph_node_indices(g) == 0..(Len(g.nodes) - 1)

\* g has a topological order: petgraph::algo::toposort returns Ok
RECURSIVE Graph_is_acyclic(_, _)
Graph_is_acyclic(g, remaining) ==
    IF remaining = {}
    THEN TRUE
    ELSE IF Graph_sources(g, remaining) = {}
         THEN FALSE
         ELSE Graph_is_acyclic(g, remaining \ Graph_sources(g, remaining))

\* the CompiledGraph built at 82-95: render_queues keeps the Render queues
CompiledGraph_new(queues) ==
    [shaders          |-> {},
     pipeline_layouts |-> {},
     render_pipelines |-> {},
     render_passes    |-> {},
     render_queues    |-> SelectSeq(queues, LAMBDA q : q = "Render")]

CompiledGraph_panic(c, message, line) == [c EXCEPT !.panic = message, !.line = line]

\* create_pipeline (166-260)
CompiledGraph_create_pipeline(c, pass_builder, pipeline_info, shaders) ==
    IF pass_builder.pipeline \notin c.compiled_graph.render_pipelines
    THEN c
    ELSE IF pipeline_info.vertex_shader \notin shaders
    THEN CompiledGraph_panic(c, "unwrap on None", 185)
    ELSE IF /\ pipeline_info.fragment_shader.is_some
            /\ pipeline_info.fragment_shader.value \notin shaders
    THEN CompiledGraph_panic(c, "unwrap on None", 195)
    ELSE LET modules == {pipeline_info.vertex_shader}
                            \cup (IF pipeline_info.fragment_shader.is_some
                                  THEN {pipeline_info.fragment_shader.value} ELSE {})
         IN  [c EXCEPT
                !.compiled_graph.shaders = @ \cup modules,
                !.compiled_graph.pipeline_layouts = @ \cup {pass_builder.pipeline},
                !.compiled_graph.render_pipelines = @ \cup {pass_builder.pipeline},
                !.device.shader_modules =
                    @ + Cardinality(modules \ c.compiled_graph.shaders),
                !.device.pipeline_layouts =
                    @ + (IF pass_builder.pipeline \in c.compiled_graph.pipeline_layouts
                         THEN 0 ELSE 1),
                !.device.render_pipelines = @ + 1]

\* create_render_pass (143-164); vertex_buffer_attachments is not read
CompiledGraph_create_render_pass(c, render_pass, vertex_buffers, colour_attachments) ==
    IF render_pass.pipeline \notin c.compiled_graph.render_pipelines
    THEN CompiledGraph_panic(c, "unwrap on None", 151)
    ELSE IF \E i \in DOMAIN render_pass.colour_attachments :
               \/ ~PassResource_resource_handle(render_pass.colour_attachments[i]).is_some
               \/ PassResource_resource_handle(render_pass.colour_attachments[i]).value
                      \notin colour_attachments
    THEN CompiledGraph_panic(c, "unwrap on None", 153)
    ELSE [c EXCEPT !.device.render_passes = @ + 1]

\* the body of the loop over nodes_to_visit (105-137) for one node
CompiledGraph_visit(graph, inputs, c, node_index) ==
    LET v == graph.graph.forward_graph.nodes[node_index + 1]
        pass == HandleMap_get_from_handle(graph.passes, v.handle)
        pipeline_info == HandleMap_get_from_handle(graph.pipelines, pass.value.pipeline)
        c1 == [c EXCEPT !.pipeline_layouts = @ \cup {pass.value.pipeline}]
        c2 == CompiledGraph_create_pipeline(c1, pass.value, pipeline_info.value,
                                            inputs.shaders)
    IN  IF v.colour = "Red"
        THEN CompiledGraph_panic(c, "not yet implemented", 108)
        ELSE IF ~pass.is_some
        THEN CompiledGraph_panic(c, "unwrap on None", 111)
        ELSE IF ~pipeline_info.is_some
        THEN CompiledGraph_panic(c, "unwrap on None", 112)
        ELSE IF c2.panic # ""
        THEN c2
        ELSE CompiledGraph_create_render_pass(c2, pass.value,
                 inputs.vertex_buffer_attachments, inputs.colour_attachments)

\* for node_index in nodes_to_visit (104-138).  toposort fixes the order
\* only up to the edges of reverse_graph: the next node visited is any node
\* whose predecessors have all been visited, and the results of the walk
\* are those of every topological order.  A panic ends the walk.
RECURSIVE CompiledGraph_walk(_, _, _, _)
CompiledGraph_walk(graph, inputs, c, remaining) ==
    IF remaining = {}
    THEN {c}
    ELSE UNION {
             LET visited == CompiledGraph_visit(
                                graph, inputs,
                                [c EXCEPT !.visited = Append(@, node_index)], node_index)
             IN  IF visited.panic # ""
                 THEN {visited}
                 ELSE CompiledGraph_walk(graph, inputs, visited, remaining \ {node_index})
             : node_index \in Graph_sources(graph.graph.reverse_graph, remaining)}

\* render_queues[0].submit(encoder.finish()) (140)
CompiledGraph_submit(c) ==
    IF c.panic # ""
    THEN c
    ELSE IF Len(c.compiled_graph.render_queues) = 0
    THEN CompiledGraph_panic(c, "index out of bounds", 140)
    ELSE [c EXCEPT !.submitted = TRUE]

\* render_from_graph (65-141): the set of its outcomes; the function
\* returns () and the CompiledGraph is dropped at its end
CompiledGraph_render_from_graph(graph, inputs) ==
    LET c0 == [compiled_graph   |-> CompiledGraph_new(inputs.queues),
               pipeline_layouts |-> {},
               device           |-> [encoders         |-> 1,
                                     shader_modules   |-> 0,
                                     pipeline_layouts |-> 0,
                                     render_pipelines |-> 0,
                                     render_passes    |-> 0],
               visited          |-> <<>>,
               submitted        |-> FALSE,
               panic            |-> "",
               line             |-> 0]
    IN  IF ~Graph_is_acyclic(graph.graph.reverse_graph,
                             Graph_node_indices(graph.graph.reverse_graph))
        THEN {CompiledGraph_panic(c0, "unwrap on Err(Cycle)", 100)}
        ELSE {CompiledGraph_submit(c) :
                 c \in CompiledGraph_walk(graph, inputs, c0,
                           Graph_node_indices(graph.graph.reverse_graph))}

(***************************************************************************)
(* State.                                                                  *)
(***************************************************************************)
VARIABLES
    set,                        \* SpecSet: the SparseSet under test
    live,                       \* history: handles pushed and not removed or cleared since
    stored,                     \* history: per live handle, the value pushed or last written
    all_resources,              \* ResourceReferenceManager.all_resources
    active_resources,           \* ResourceReferenceManager.active_resources
    inactive_resources,         \* ResourceReferenceManager.inactive_resources
    now,                        \* the clock read by Instant::now()
    last_resource_id,           \* ResourceManager.last_resource_id
    resource_id_map,            \* ResourceManager.resource_id_map (uuid -> handle)
    name_id_map,                \* ResourceManager.name_id_map (name -> uuid)
    path_id_map,                \* ResourceManager.path_id_map (path -> uuid)
    resources,                  \* ResourceManager.resources (a SparseSet)
    resources_being_destroyed,  \* ResourceManager.resources_being_destroyed
    destroyed,                  \* the resources handed to handler.destroy, in call order
    wrappers,                   \* history: live ResourceHandle wrappers per handle
    dropped,                    \* the ResourceManager was dropped
    mgr_pc,                     \* where the thread of the manager is in create or upkeep
    net,                        \* history: activate calls minus deactivate calls per handle
    zero_time,                  \* history: when the count of a handle last dropped to zero
    thread_pc,                  \* SpecThreads: where each thread is in its clone or drop
    lock,                       \* SpecThreads: the thread holding the RwLock for writing, or 0
    thread_local,               \* SpecThreads: the manager as each thread read it
    owned,                      \* SpecThreads: the wrappers each thread holds
    clones,                     \* history: clones completed
    drops,                      \* history: drops completed
    initial_count,              \* history: the reference_count when the threads started
    render_graph,               \* SpecGraph: the RenderGraph and the uuid generator
    api_handles,                \* history: the handles add_resource / add_render_pass returned
    add_resource_calls,         \* history: the calls of add_resource by the user
    last,                       \* the last operation: its arguments, pre-state and result
    panicked                    \* "" or the panic that ended the run

setVars == <<set, live, stored>>

refVars == <<all_resources, active_resources, inactive_resources>>

mgrVars == <<last_resource_id, resource_id_map, name_id_map, path_id_map, resources,
             resources_being_destroyed,
             destroyed, wrappers, dropped, mgr_pc>>

histVars == <<net, zero_time>>

graphVars == <<render_graph, api_handles, add_resource_calls>>

threadVars == <<thread_pc, lock, thread_local, owned, clones, drops, initial_count>>

vars == <<set, live, stored, all_resources, active_resources, inactive_resources, now,
          last_resource_id, resource_id_map, name_id_map, path_id_map, resources,
          resources_being_destroyed, destroyed, wrappers, dropped, mgr_pc, net,
          zero_time,
          thread_pc, lock, thread_local, owned, clones, drops, initial_count,
          render_graph, api_handles, add_resource_calls, last, panicked>>

\* the reference manager of the state, as the record the methods take
RefManager ==
    [all_resources      |-> all_resources,
     active_resources   |-> active_resources,
     inactive_resources |-> inactive_resources]

NoOp ==
    [op            |-> "init",
     resource      |-> 0,
     time          |-> 0,
     pre_all       |-> <<>>,
     pre_inactive  |-> <<>>,
     pre_zero      |-> <<>>,
     pre_set       |-> <<>>,
     pre_live      |-> {},
     pre_stored    |-> <<>>,
     value         |-> 0,
     pass          |-> <<>>,
     pre_graph     |-> <<>>,
     vertex        |-> <<>>,
     existing      |-> 0,
     inputs        |-> <<>>,
     compiled      |-> <<>>,
     returned      |-> <<>>,
     ret_value     |-> None,
     destroy_calls |-> 0]

\* the thread of the manager is in no call; in create between 185 and 186
\* for handle; in upkeep with remaining turns of the second loop to go
Idle ==
    [at |-> "idle", handle |-> 0, remaining |-> 0, returned |-> <<>>,
     destroy_calls |-> 0, time |-> 0]

Handles == 1..MaxHandle

Threads == 1..NumThreads

\* the history kept per handle, cut down to the handles still registered
Restrict(f, keys) == [k \in (DOMAIN f) \cap keys |-> f[k]]

Init ==
    /\ set = SparseSet_new(Capacity)
    /\ live = {}
    /\ stored = <<>>
    /\ all_resources = ResourceReferenceManager_new.all_resources
    /\ active_resources = ResourceReferenceManager_new.active_resources
    /\ inactive_resources = ResourceReferenceManager_new.inactive_resources
    /\ now = 0
    /\ last_resource_id = 0
    /\ resource_id_map = <<>>
    /\ name_id_map = <<>>
    /\ path_id_map = <<>>
    /\ resources = SparseSet_new(MAX_RESOURCES)
    /\ resources_being_destroyed = <<>>
    /\ destroyed = <<>>
    /\ wrappers = <<>>
    /\ dropped = FALSE
    /\ mgr_pc = Idle
    /\ net = <<>>
    /\ zero_time = <<>>
    /\ thread_pc = [t \in Threads |-> "idle"]
    /\ lock = 0
    /\ thread_local = [t \in Threads |-> ResourceReferenceManager_new]
    /\ owned = [t \in Threads |-> 0]
    /\ clones = 0
    /\ drops = 0
    /\ initial_count = 0
    /\ render_graph = RenderGraph_new
    /\ api_handles = {}
    /\ add_resource_calls = 0
    /\ last = NoOp
    /\ panicked = ""

(***************************************************************************)
(* SpecSet: push, remove, get_mut and clear on one SparseSet of capacity   *)
(* Capacity, with handles 0..Capacity + 1 (Capacity and Capacity + 1 are   *)
(* out of range).  get, contains, len and get_all_elements read the set    *)
(* and are the operators applied to the state.  last keeps the set, live   *)
(* and stored as they were before the call.                                *)
(***************************************************************************)
SetHandles == 0..(Capacity + 1)

SetPush(h, v) ==
    /\ panicked = ""
    /\ LET r == SparseSet_push(set, h, v)
       IN  /\ set' = r.set
           /\ panicked' = r.panicked
           /\ live' = IF r.panicked = "" THEN live \cup {h} ELSE live
           /\ stored' = IF r.panicked = "" /\ h \notin live THEN (h :> v) @@ stored
                        ELSE stored
           /\ last' = [NoOp EXCEPT !.op = "push", !.resource = h, !.value = v,
                                   !.pre_set = set, !.pre_live = live,
                                   !.pre_stored = stored,
                                   !.ret_value = SparseSet_get(r.set, h)]
    /\ UNCHANGED <<graphVars, threadVars, refVars, mgrVars, histVars, now>>

SetRemove(h) ==
    /\ panicked = ""
    /\ LET r == SparseSet_remove(set, h)
       IN  /\ set' = r.set
           /\ live' = live \ {h}
           /\ stored' = Restrict(stored, live \ {h})
           /\ last' = [NoOp EXCEPT !.op = "remove", !.resource = h,
                                   !.pre_set = set, !.pre_live = live,
                                   !.pre_stored = stored,
                                   !.returned = <<r.ret_handle>>,
                                   !.ret_value = r.ret_value]
    /\ UNCHANGED <<graphVars, threadVars, refVars, mgrVars, histVars, now, panicked>>

\* *set.get_mut(h).unwrap() = v when get_mut returns a reference, nothing
\* written when it returns None
SetGetMut(h, v) ==
    /\ panicked = ""
    /\ LET r == SparseSet_get_mut(set, h, v)
       IN  /\ set' = r.set
           /\ stored' = IF h \in live THEN [stored EXCEPT ![h] = v] ELSE stored
           /\ last' = [NoOp EXCEPT !.op = "get_mut", !.resource = h, !.value = v,
                                   !.pre_set = set, !.pre_live = live,
                                   !.pre_stored = stored,
                                   !.ret_value = r.ret]
    /\ UNCHANGED <<graphVars, threadVars, live, refVars, mgrVars, histVars, now, panicked>>

SetClear ==
    /\ panicked = ""
    /\ set' = SparseSet_clear(set)
    /\ live' = {}
    /\ stored' = <<>>
    /\ last' = [NoOp EXCEPT !.op = "clear", !.pre_set = set, !.pre_live = live,
                            !.pre_stored = stored]
    /\ UNCHANGED <<graphVars, threadVars, refVars, mgrVars, histVars, now, panicked>>

NextSet ==
    \/ \E h \in SetHandles, v \in 1..MaxValue : SetPush(h, v)
    \/ \E h \in SetHandles : SetRemove(h)
    \/ \E h \in SetHandles, v \in 1..MaxValue : SetGetMut(h, v)
    \/ SetClear

SpecSet == Init /\ [][NextSet]_vars

(***************************************************************************)
(* SpecRef: the methods of one ResourceReferenceManager.  A deactivate is  *)
(* issued only for a count above zero (every deactivate is the drop of a   *)
(* wrapper whose construction activated the handle).                       *)
(***************************************************************************)
Registered(h) == h \in DOMAIN all_resources

Count(h) == all_resources[h].reference_count

SetRef(m) ==
    /\ all_resources' = m.all_resources
    /\ active_resources' = m.active_resources
    /\ inactive_resources' = m.inactive_resources

RefCreate(h, lifetime) ==
    /\ panicked = ""
    /\ Registered(h) => Count(h) < MaxRefs
    /\ LET r == ResourceReferenceManager_create(RefManager, h, lifetime)
       IN  /\ SetRef(r.m)
           /\ panicked' = r.panicked
           /\ net' = IF Registered(h) THEN [net EXCEPT ![h] = @ + 1]
                     ELSE (h :> 1) @@ net
           /\ zero_time' = Restrict(zero_time, DOMAIN zero_time \ {h})
           /\ last' = [NoOp EXCEPT !.op = "create", !.resource = h]
    /\ UNCHANGED <<graphVars, threadVars, setVars, mgrVars, now>>

RefActivate(h) ==
    /\ panicked = ""
    /\ Registered(h) => Count(h) < MaxRefs
    /\ LET r == ResourceReferenceManager_activate(RefManager, h)
       IN  /\ SetRef(r.m)
           /\ panicked' = r.panicked
           /\ net' = IF r.panicked = "" THEN [net EXCEPT ![h] = @ + 1] ELSE net
           /\ zero_time' = Restrict(zero_time, DOMAIN zero_time \ {h})
           /\ last' = [NoOp EXCEPT !.op = "activate", !.resource = h]
    /\ UNCHANGED <<graphVars, threadVars, setVars, mgrVars, now>>

RefDeactivate(h) ==
    /\ panicked = ""
    /\ Registered(h) => Count(h) > 0
    /\ Len(inactive_resources) < MaxQueue
    /\ LET r == ResourceReferenceManager_deactivate(RefManager, h, now)
       IN  /\ SetRef(r.m)
           /\ panicked' = r.panicked
           /\ net' = IF r.panicked = "" THEN [net EXCEPT ![h] = @ - 1] ELSE net
           /\ zero_time' = IF r.panicked = "" /\ Count(h) = 1
                           THEN (h :> now) @@ zero_time
                           ELSE zero_time
           /\ last' = [NoOp EXCEPT !.op = "deactivate", !.resource = h, !.time = now,
                                   !.pre_all = all_resources,
                                   !.pre_inactive = inactive_resources]
    /\ UNCHANGED <<graphVars, threadVars, setVars, mgrVars, now>>

RefUpkeep ==
    /\ panicked = ""
    /\ LET r == ResourceReferenceManager_upkeep(RefManager, now)
       IN  /\ SetRef(r.m)
           /\ panicked' = r.panicked
           /\ net' = Restrict(net, DOMAIN r.m.all_resources)
           /\ zero_time' = Restrict(zero_time, DOMAIN r.m.all_resources)
           /\ last' = [NoOp EXCEPT !.op = "upkeep", !.time = now,
                                   !.pre_all = all_resources,
                                   !.pre_inactive = inactive_resources,
                                   !.pre_zero = zero_time,
                                   !.returned = r.resources_to_delete]
    /\ UNCHANGED <<graphVars, threadVars, setVars, mgrVars, now>>

\* time passes between two calls
Tick ==
    /\ panicked = ""
    /\ ~dropped
    /\ now < MaxTime
    /\ now' = now + 1
    /\ last' = [NoOp EXCEPT !.op = "tick"]
    /\ UNCHANGED <<graphVars, threadVars, setVars, refVars, mgrVars, histVars, panicked>>

NextRef ==
    \/ \E h \in Handles, lifetime \in LifetimeInputs : RefCreate(h, lifetime)
    \/ \E h \in Handles : RefActivate(h)
    \/ \E h \in Handles : RefDeactivate(h)
    \/ RefUpkeep
    \/ Tick

SpecRef == Init /\ [][NextRef]_vars

(***************************************************************************)
(* Spec: one ResourceManager built with MAX_RESOURCES, driven by create,   *)
(* get_from_uuid, get_from_name, get_from_path, upkeep and its drop, and   *)
(* by the clone and drop of the ResourceHandle wrappers it returned.       *)
(* wrappers[h] counts the wrappers of h that are alive.  The callers hold  *)
(* the ResourceMetaData objects MetaData(1) .. MetaData(MaxCreate), each   *)
(* with its own uuid: the first has neither name nor path, the others the  *)
(* name 1, the last also the path 1 (a later create with the same name     *)
(* overwrites the name_id_map entry).  Lookups are made with every uuid,   *)
(* with the names 1 and 2 and with the paths 1 and 2.                      *)
(* The methods of the manager run in one thread (create and upkeep take    *)
(* &mut self); the wrappers may be cloned and dropped by other threads     *)
(* whenever the lock of the reference manager is free.  create holds the   *)
(* lock in the statement of 185 and again in ResourceHandle::new (22), and *)
(* upkeep holds it during its first loop only (134-144): mgr_pc records    *)
(* the manager's thread between the two halves of create and between the   *)
(* turns of the second loop of upkeep, where clones and drops of wrappers  *)
(* and ticks of the clock can fall.  No count reaches zero (create         *)
(* activates twice and returns one wrapper, and deactivate is called by    *)
(* the drop of a wrapper only, 51), so upkeep finds nothing to evict and   *)
(* its second loop has no turn to make: MgrUpkeepDestroy, the turn of that *)
(* loop, is never enabled and is no disjunct of Next (CountStaysPositive   *)
(* and UpkeepEvictsNothing below are invariants of Spec).                  *)
(***************************************************************************)
Manager ==
    [last_resource_id          |-> last_resource_id,
     resource_id_map           |-> resource_id_map,
     name_id_map               |-> name_id_map,
     path_id_map               |-> path_id_map,
     resources                 |-> resources,
     resources_being_destroyed |-> resources_being_destroyed,
     reference_manager         |-> RefManager,
     destroyed                 |-> destroyed]

SetManager(rm) ==
    /\ last_resource_id' = rm.last_resource_id
    /\ resource_id_map' = rm.resource_id_map
    /\ name_id_map' = rm.name_id_map
    /\ path_id_map' = rm.path_id_map
    /\ resources' = rm.resources
    /\ resources_being_destroyed' = rm.resources_being_destroyed
    /\ destroyed' = rm.destroyed
    /\ SetRef(rm.reference_manager)

Uuids == 1..MaxCreate

Names == 1..2

Paths == 1..2

MetaData(uuid, lifetime) ==
    [uuid     |-> uuid,
     lifetime |-> lifetime,
     name     |-> IF uuid > 1 THEN Some(1) ELSE None,
     path     |-> IF uuid = MaxCreate THEN Some(1) ELSE None]

\* create from its start to the release of the write guard of 185
CreateRegistered(meta_resource) ==
    /\ panicked = ""
    /\ ~dropped
    /\ mgr_pc.at = "idle"
    /\ LET r == ResourceManager_create_registered(Manager, meta_resource)
       IN  /\ SetManager(r.rm)
           /\ panicked' = r.panicked
           /\ wrappers' = IF r.panicked = "" THEN (r.handle :> 0) @@ wrappers ELSE wrappers
           /\ mgr_pc' = IF r.panicked = ""
                        THEN [Idle EXCEPT !.at = "create", !.handle = r.handle]
                        ELSE mgr_pc
           /\ last' = [NoOp EXCEPT !.op = "mgr_create", !.resource = r.handle]
    /\ UNCHANGED <<graphVars, threadVars, setVars, histVars, now, dropped>>

MgrCreate(uuid, lifetime) ==
    /\ last_resource_id < MaxCreate
    /\ CreateRegistered(MetaData(uuid, lifetime))

\* the rest of create: self.create_resource_handle(resource_id) (186), which
\* takes the write lock again and activates (22)
MgrCreateHandle ==
    /\ panicked = ""
    /\ mgr_pc.at = "create"
    /\ LET r == ResourceManager_create_resource_handle(Manager, mgr_pc.handle)
       IN  /\ SetManager(r.rm)
           /\ panicked' = r.panicked
           /\ wrappers' = IF r.panicked = "" THEN [wrappers EXCEPT ![r.handle] = @ + 1]
                          ELSE wrappers
           /\ last' = [NoOp EXCEPT !.op = "mgr_create", !.resource = r.handle]
    /\ mgr_pc' = Idle
    /\ UNCHANGED <<graphVars, threadVars, setVars, histVars, now, dropped>>

MgrGet(uuid) ==
    /\ panicked = ""
    /\ ~dropped
    /\ mgr_pc.at = "idle"
    /\ (uuid \in DOMAIN resource_id_map /\ resource_id_map[uuid] \in DOMAIN wrappers)
           => wrappers[resource_id_map[uuid]] < MaxRefs
    /\ LET r == ResourceManager_get_from_uuid(Manager, uuid)
       IN  /\ SetManager(r.rm)
           /\ panicked' = r.panicked
           /\ wrappers' = IF r.panicked = "" THEN [wrappers EXCEPT ![r.handle] = @ + 1]
                          ELSE wrappers
           /\ last' = [NoOp EXCEPT !.op = "mgr_get", !.resource = r.handle,
                                   !.value = uuid]
    /\ UNCHANGED <<graphVars, threadVars, setVars, histVars, now, dropped, mgr_pc>>

MgrGetName(name) ==
    /\ panicked = ""
    /\ ~dropped
    /\ mgr_pc.at = "idle"
    /\ (name \in DOMAIN name_id_map /\ name_id_map[name] \in DOMAIN resource_id_map
           /\ resource_id_map[name_id_map[name]] \in DOMAIN wrappers)
           => wrappers[resource_id_map[name_id_map[name]]] < MaxRefs
    /\ LET r == ResourceManager_get_from_name(Manager, name)
       IN  /\ SetManager(r.rm)
           /\ panicked' = r.panicked
           /\ wrappers' = IF r.panicked = "" THEN [wrappers EXCEPT ![r.handle] = @ + 1]
                          ELSE wrappers
           /\ last' = [NoOp EXCEPT !.op = "mgr_get_name", !.resource = r.handle,
                                   !.value = name]
    /\ UNCHANGED <<graphVars, threadVars, setVars, histVars, now, dropped, mgr_pc>>

MgrGetPath(path) ==
    /\ panicked = ""
    /\ ~dropped
    /\ mgr_pc.at = "idle"
    /\ (path \in DOMAIN path_id_map /\ path_id_map[path] \in DOMAIN resource_id_map
           /\ resource_id_map[path_id_map[path]] \in DOMAIN wrappers)
           => wrappers[resource_id_map[path_id_map[path]]] < MaxRefs
    /\ LET r == ResourceManager_get_from_path(Manager, path)
       IN  /\ SetManager(r.rm)
           /\ panicked' = r.panicked
           /\ wrappers' = IF r.panicked = "" THEN [wrappers EXCEPT ![r.handle] = @ + 1]
                          ELSE wrappers
           /\ last' = [NoOp EXCEPT !.op = "mgr_get_path", !.resource = r.handle,
                                   !.value = path]
    /\ UNCHANGED <<graphVars, threadVars, setVars, histVars, now, dropped, mgr_pc>>

\* clone of a wrapper (38-47): activate under the write guard (40), then the
\* new wrapper is built (41-45); a panic of activate leaves no new wrapper
HandleClone(h) ==
    /\ panicked = ""
    /\ h \in DOMAIN wrappers
    /\ wrappers[h] > 0
    /\ wrappers[h] < MaxRefs
    /\ LET r == ResourceHandle_clone(RefManager, h)
       IN  /\ SetRef(r.m)
           /\ panicked' = r.panicked
           /\ wrappers' = IF r.panicked = "" THEN [wrappers EXCEPT ![h] = @ + 1]
                          ELSE wrappers
    /\ last' = [NoOp EXCEPT !.op = "clone", !.resource = h]
    /\ UNCHANGED <<graphVars, threadVars, setVars, histVars, now, dropped, mgr_pc,
                   last_resource_id, resource_id_map, name_id_map, path_id_map, resources,
                   resources_being_destroyed, destroyed>>

\* a drop that destroys the resource when the last wrapper goes
HandleDrop_destroys(h) ==
    /\ panicked = ""
    /\ h \in DOMAIN wrappers
    /\ wrappers[h] > 0
    /\ Len(inactive_resources) < MaxQueue
    /\ LET r == ResourceHandle_drop(RefManager, h, now)
       IN  /\ SetRef(r.m)
           /\ panicked' = r.panicked
    /\ wrappers' = [wrappers EXCEPT ![h] = @ - 1]
    /\ LET removed == SparseSet_remove(resources, h)
       IN  IF wrappers[h] = 1 /\ removed.ret_value.is_some
           THEN /\ resources' = removed.set
                /\ destroyed' = Append(destroyed, removed.ret_value.value)
           ELSE UNCHANGED <<graphVars, resources, destroyed>>
    /\ last' = [NoOp EXCEPT !.op = "drop", !.resource = h, !.time = now]
    /\ UNCHANGED <<graphVars, threadVars, setVars, histVars, now, dropped, mgr_pc,
                   last_resource_id, resource_id_map, name_id_map, path_id_map,
                   resources_being_destroyed>>

HandleDrop(h) ==
    /\ panicked = ""
    /\ h \in DOMAIN wrappers
    /\ wrappers[h] > 0
    /\ Len(inactive_resources) < MaxQueue
    /\ LET r == ResourceHandle_drop(RefManager, h, now)
       IN  /\ SetRef(r.m)
           /\ panicked' = r.panicked
    /\ wrappers' = [wrappers EXCEPT ![h] = @ - 1]
    /\ last' = [NoOp EXCEPT !.op = "drop", !.resource = h, !.time = now]
    /\ UNCHANGED <<graphVars, threadVars, setVars, histVars, now, dropped, mgr_pc,
                   last_resource_id, resource_id_map, name_id_map, path_id_map, resources,
                   resources_being_destroyed, destroyed>>

\* upkeep up to the end of its first loop (134-144), where the write guard
\* of 134 is released; the call returns here when the second loop has no
\* turn to make
MgrUpkeep ==
    /\ panicked = ""
    /\ ~dropped
    /\ mgr_pc.at = "idle"
    /\ LET r == ResourceManager_upkeep_locked(Manager, now)
           calls == Len(r.rm.destroyed) - Len(destroyed)
           turns == ResourceManager_upkeep_turns(r.rm)
       IN  /\ SetManager(r.rm)
           /\ panicked' = r.panicked
           /\ mgr_pc' = IF r.panicked = "" /\ turns > 0
                        THEN [Idle EXCEPT !.at = "upkeep", !.remaining = turns,
                                          !.returned = r.reported,
                                          !.destroy_calls = calls, !.time = now]
                        ELSE mgr_pc
           /\ last' = [NoOp EXCEPT !.op = "mgr_upkeep", !.time = now,
                                   !.returned = r.reported,
                                   !.destroy_calls = calls]
    /\ UNCHANGED <<graphVars, threadVars, setVars, histVars, now, dropped, wrappers>>

\* one turn of the second loop of upkeep (146-149), the lock not held: pop
\* the buffer and hand the resource to handler.destroy
MgrUpkeepDestroy ==
    /\ panicked = ""
    /\ mgr_pc.at = "upkeep"
    /\ SetManager(ResourceManager_upkeep_drain(Manager, 1))
    /\ mgr_pc' = IF mgr_pc.remaining = 1
                 THEN Idle
                 ELSE [mgr_pc EXCEPT !.remaining = @ - 1, !.destroy_calls = @ + 1]
    /\ last' = [NoOp EXCEPT !.op = "mgr_upkeep", !.time = mgr_pc.time,
                            !.returned = mgr_pc.returned,
                            !.destroy_calls = mgr_pc.destroy_calls + 1]
    /\ UNCHANGED <<graphVars, threadVars, setVars, histVars, now, dropped, wrappers,
                   panicked>>

\* the ResourceManager goes out of scope; it is dropped once
MgrDrop ==
    /\ panicked = ""
    /\ ~dropped
    /\ mgr_pc.at = "idle"
    /\ LET r == ResourceManager_drop(Manager)
       IN  /\ SetManager(r.rm)
           /\ panicked' = r.panicked
           /\ last' = [NoOp EXCEPT !.op = "mgr_drop",
                                   !.returned = resources.dense_objects,
                                   !.destroy_calls = Len(r.rm.destroyed) - Len(destroyed)]
    /\ dropped' = TRUE
    /\ UNCHANGED <<graphVars, threadVars, setVars, histVars, now, wrappers, mgr_pc>>

Next ==
    \/ \E uuid \in Uuids, lifetime \in LifetimeInputs : MgrCreate(uuid, lifetime)
    \/ MgrCreateHandle
    \/ \E uuid \in Uuids : MgrGet(uuid)
    \/ \E name \in Names : MgrGetName(name)
    \/ \E path \in Paths : MgrGetPath(path)
    \/ \E h \in 1..MaxCreate : HandleClone(h)
    \/ \E h \in 1..MaxCreate : HandleDrop(h)
    \/ MgrUpkeep
    \/ MgrDrop
    \/ Tick

Spec == Init /\ [][Next]_vars

(***************************************************************************)
(* What upkeep meets in Spec.  The count of a registered resource is the   *)
(* number of its live wrappers plus one (one while create is between its   *)
(* two halves), so it never reaches zero, deactivate never pushes an entry *)
(* on inactive_resources, and ResourceManager::upkeep is handed no handle: *)
(* it buffers nothing, its second loop makes no turn, and resources are    *)
(* handed to handler.destroy by the drop of the manager only.              *)
(***************************************************************************)
CountStaysPositive ==
    /\ \A h \in DOMAIN all_resources : Count(h) >= 1
    /\ inactive_resources = ResourceReferenceManager_new.inactive_resources

UpkeepEvictsNothing ==
    /\ mgr_pc.at # "upkeep"
    /\ resources_being_destroyed = <<>>
    /\ ~dropped => destroyed = <<>>
    /\ last.op = "mgr_upkeep" => last.returned = <<>> /\ last.destroy_calls = 0

(***************************************************************************)
(* SpecThreads: NumThreads threads clone and drop the wrappers of one      *)
(* resource of one ResourceManager.  Clone and Drop for ResourceHandle are *)
(* the statement self.manager.write().unwrap().activate(h) (deactivate for *)
(* Drop): the thread takes the RwLock for writing, activate reads the      *)
(* manager and writes it back with the count changed, and the guard is     *)
(* released at the end of the statement.  The four steps of a thread are   *)
(* taken one at a time, the steps of other threads in between.  The        *)
(* resource is made by ResourceManager::create before the threads start;   *)
(* a clone can be handed to any thread.                                    *)
(***************************************************************************)
\* RwLock::write returns the guard when no other thread holds the lock
RwLock_write_unguarded(lock_) == TRUE

RwLock_write(lock_) == lock_ = 0

ThreadResource == 1

\* create runs before any wrapper exists: no other thread holds the lock
\* of the reference manager yet, and the call is taken as one step
ThreadsCreate(lifetime) ==
    /\ panicked = ""
    /\ last_resource_id = 0
    /\ LET r == ResourceManager_create(Manager, MetaData(1, lifetime))
       IN  /\ SetManager(r.rm)
           /\ panicked' = r.panicked
           /\ wrappers' = (r.handle :> 1) @@ wrappers
           /\ owned' = [owned EXCEPT ![1] = 1]
           /\ initial_count' = r.rm.reference_manager.all_resources[r.handle].reference_count
           /\ last' = [NoOp EXCEPT !.op = "mgr_create", !.resource = r.handle]
    /\ UNCHANGED <<graphVars, setVars, histVars, now, dropped, mgr_pc, thread_pc, lock,
                   thread_local, clones, drops>>

\* self.manager.write().unwrap() of Clone (resource.rs 40) and of Drop (51)
ThreadLock(t, op) ==
    /\ panicked = ""
    /\ thread_pc[t] = "idle"
    /\ owned[t] > 0
    /\ op = "clone" => clones < MaxClones
    /\ RwLock_write(lock)
    /\ lock' = t
    /\ thread_pc' = [thread_pc EXCEPT ![t] = op \o "_locked"]
    /\ last' = [NoOp EXCEPT !.op = "lock", !.resource = t]
    /\ UNCHANGED <<graphVars, setVars, refVars, mgrVars, histVars, now, panicked, thread_local,
                   owned, clones, drops, initial_count>>

\* activate / deactivate read the manager behind the guard
ThreadRead(t) ==
    /\ panicked = ""
    /\ thread_pc[t] \in {"clone_locked", "drop_locked"}
    /\ thread_local' = [thread_local EXCEPT ![t] = RefManager]
    /\ thread_pc' = [thread_pc EXCEPT ![t] =
                        IF @ = "clone_locked" THEN "clone_read" ELSE "drop_read"]
    /\ last' = [NoOp EXCEPT !.op = "read", !.resource = t]
    /\ UNCHANGED <<graphVars, setVars, refVars, mgrVars, histVars, now, panicked, lock,
                   owned, clones, drops, initial_count>>

\* activate / deactivate write the manager back
ThreadWrite(t) ==
    /\ panicked = ""
    /\ thread_pc[t] \in {"clone_read", "drop_read"}
    /\ LET r == IF thread_pc[t] = "clone_read"
                THEN ResourceHandle_clone(thread_local[t], ThreadResource)
                ELSE ResourceHandle_drop(thread_local[t], ThreadResource, now)
       IN  /\ SetRef(r.m)
           /\ panicked' = r.panicked
    /\ thread_pc' = [thread_pc EXCEPT ![t] =
                        IF @ = "clone_read" THEN "clone_written" ELSE "drop_written"]
    /\ last' = [NoOp EXCEPT !.op = "write", !.resource = t]
    /\ UNCHANGED <<graphVars, setVars, mgrVars, histVars, now, lock, thread_local,
                   owned, clones, drops, initial_count>>

\* the guard goes out of scope; the clone is handed to thread u, the
\* dropped wrapper is gone
ThreadUnlock(t, u) ==
    /\ panicked = ""
    /\ thread_pc[t] \in {"clone_written", "drop_written"}
    /\ lock' = 0
    /\ thread_pc' = [thread_pc EXCEPT ![t] = "idle"]
    /\ IF thread_pc[t] = "clone_written"
       THEN /\ owned' = [owned EXCEPT ![u] = @ + 1]
            /\ clones' = clones + 1
            /\ drops' = drops
            /\ last' = [NoOp EXCEPT !.op = "clone", !.resource = t]
       ELSE /\ u = t
            /\ owned' = [owned EXCEPT ![t] = @ - 1]
            /\ drops' = drops + 1
            /\ clones' = clones
            /\ last' = [NoOp EXCEPT !.op = "drop", !.resource = t]
    /\ UNCHANGED <<graphVars, setVars, refVars, mgrVars, histVars, now, panicked, thread_local,
                   initial_count>>

NextThreads ==
    \/ \E lifetime \in LifetimeInputs : ThreadsCreate(lifetime)
    \/ \E t \in Threads, op \in {"clone", "drop"} : ThreadLock(t, op)
    \/ \E t \in Threads : ThreadRead(t)
    \/ \E t \in Threads : ThreadWrite(t)
    \/ \E t, u \in Threads : ThreadUnlock(t, u)

SpecThreads == Init /\ [][NextThreads]_vars

(***************************************************************************)
(* SpecGraph: one RenderGraph built by add_resource and add_render_pass.   *)
(* A resource is Persistent with the name 1, Persistent without a name, or *)
(* Dynamic.  A pass has up to MaxAttachments attachments, the first        *)
(* colours of them colour attachments and the others, in their order, in   *)
(* the slots named (depth_stencil, or vertex_buffer and index_buffer); an  *)
(* attachment names a handle the API has returned (the handle of a         *)
(* resource vertex, of an output vertex or of a pass vertex) or the handle *)
(* ForeignHandle the graph never issued.  The passes carry no label; the   *)
(* pipeline handle of a pass is not read by the builder.                   *)
(***************************************************************************)
ForeignHandle == 0

Labels == {None}

SlotInputs == {{}, {"depth_stencil"}, {"vertex_buffer", "index_buffer"}}

ResourceKinds == {"named", "unnamed", "dynamic"}

AttachmentInputs(handles) ==
    {OnlyOutput(None)}
        \cup {OnlyInput(h) : h \in handles}
        \cup {OnlyOutput(Some(h)) : h \in handles}
        \cup {InputAndOutput(h) : h \in handles}

AttachmentLists(handles) ==
    UNION {[1..n -> AttachmentInputs(handles)] : n \in 0..MaxAttachments}

OptionalSlots == <<"depth_stencil", "vertex_buffer", "index_buffer">>

\* the attachment put in slot, the others taken in order by the slots chosen
SlotOf(slot, others, slots) ==
    LET chosen == SelectSeq(OptionalSlots, LAMBDA x : x \in slots)
        at == {i \in DOMAIN chosen : chosen[i] = slot}
    IN  IF at = {} THEN None ELSE Some(others[CHOOSE i \in at : TRUE])

PassInput(label, attachments, colours, slots) ==
    LET others == SubSeq(attachments, colours + 1, Len(attachments))
    IN  RenderPassBuilder(label,
                          SubSeq(attachments, 1, colours),
                          SlotOf("depth_stencil", others, slots),
                          SlotOf("vertex_buffer", others, slots),
                          SlotOf("index_buffer", others, slots),
                          ForeignHandle)

\* what a call finds: the graph only grows, so the vertices, edges and
\* registry entries that were there before a call are those counted here
GraphSize ==
    [nodes     |-> Len(render_graph.graph.forward_graph.nodes),
     edges     |-> Len(render_graph.graph.forward_graph.edges),
     handles   |-> DOMAIN render_graph.vertex_handle_map,
     resources |-> DOMAIN render_graph.resources.handle_map,
     passes    |-> DOMAIN render_graph.passes.handle_map]

\* Resource::persistent_with_name(name), Resource::persistent_without_name()
\* or Resource::Dynamic(Uuid::new_v4()), then add_resource; at most max calls
AddResource(kind, name, max) ==
    /\ panicked = ""
    /\ add_resource_calls < max
    /\ LET uuid == Uuid_new_v4(render_graph.uuids)
           resource == IF kind = "dynamic" THEN Resource_Dynamic(uuid)
                       ELSE Resource_Persistent(uuid, IF kind = "named" THEN Some(name)
                                                      ELSE None)
       IN  \E r \in {RenderGraph_add_resource([render_graph EXCEPT !.uuids = uuid],
                                               resource)} :
              /\ render_graph' = r.rg
              /\ api_handles' = api_handles \cup {r.vertex.handle}
              /\ last' = [NoOp EXCEPT !.op = "add_resource", !.pre_graph = GraphSize,
                                      !.vertex = r.vertex]
    /\ add_resource_calls' = add_resource_calls + 1
    /\ UNCHANGED <<threadVars, setVars, refVars, mgrVars, histVars, now, panicked>>

GraphAddResource(kind) == AddResource(kind, 1, MaxAddResource)

CanAddRenderPass ==
    /\ panicked = ""
    /\ Cardinality(DOMAIN render_graph.passes.handle_map) < MaxPasses

GraphAddRenderPass(pass) ==
    /\ CanAddRenderPass
    /\ \E r \in {RenderGraph_add_render_pass(render_graph, pass)} :
          /\ render_graph' = r.rg
          /\ api_handles' = api_handles \cup {r.vertex.handle}
                                \cup {r.outputs[i].handle : i \in DOMAIN r.outputs}
          /\ last' = [NoOp EXCEPT !.op = "add_render_pass", !.pass = pass,
                                  !.pre_graph = GraphSize,
                                  !.vertex = r.vertex,
                                  !.returned = r.outputs,
                                  !.existing = r.existing]
    /\ UNCHANGED <<threadVars, setVars, refVars, mgrVars, histVars, now, panicked,
                   add_resource_calls>>

NextGraph ==
    \/ \E kind \in ResourceKinds : GraphAddResource(kind)
    \/ /\ CanAddRenderPass
       /\ \E label \in Labels :
          \E attachments \in AttachmentLists(api_handles \cup {ForeignHandle}) :
          \E colours \in 0..Len(attachments) :
          \E slots \in SlotInputs :
             /\ Cardinality(slots) = Len(attachments) - colours
             /\ GraphAddRenderPass(PassInput(label, attachments, colours, slots))

SpecGraph == Init /\ [][NextGraph]_vars

(***************************************************************************)
(* SpecCompile: a RenderGraph built by add_shader, add_pipeline,           *)
(* add_resource and add_render_pass (MaxCompileVertices vertices declared  *)
(* at most), and CompiledGraph::render_from_graph called on it.            *)
(* The resources are Persistent and named (1, then 2).  A pass has up to   *)
(* MaxAttachments colour attachments, which are the only attachments the   *)
(* compiler reads; they name handles of resource vertices the API has      *)
(* returned; the pass names the registered pipeline, or the handle         *)
(* ForeignHandle while no pipeline is registered.  The vertex shader of a  *)
(* pipeline is the handle add_shader returned, or ForeignHandle while no   *)
(* shader is registered.  The caller passes render_from_graph no queue and *)
(* nothing else, or a compute and a render queue with either no shader     *)
(* builder and no colour attachment or one for every handle in use.  A     *)
(* panic of render_from_graph ends the run.                                *)
(***************************************************************************)
PipelineHandles == DOMAIN render_graph.pipelines.handle_map

ShaderHandles == DOMAIN render_graph.shaders.handle_map

\* ShaderRepresentation::shader(), then add_shader
GraphAddShader(id) ==
    /\ panicked = ""
    /\ Cardinality(ShaderHandles) < MaxShaders
    /\ \E r \in {RenderGraph_add_shader(render_graph, ShaderRepresentation_shader, id)} :
          /\ render_graph' = r.rg
          /\ last' = [NoOp EXCEPT !.op = "add_shader", !.pre_graph = GraphSize,
                                  !.value = r.handle]
    /\ UNCHANGED <<threadVars, setVars, refVars, mgrVars, histVars, now, panicked,
                   api_handles, add_resource_calls>>

\* the handles add_resource and add_render_pass returned for resource vertices
ResourceVertexHandles == api_handles \cap DOMAIN render_graph.resources.handle_map

\* PipelineLayoutBuilder::layout(), then add_pipeline
GraphAddPipeline(vertex_shader, fragment_shader) ==
    /\ panicked = ""
    /\ Cardinality(PipelineHandles) < MaxPipelines
    /\ \E r \in {RenderGraph_add_pipeline(render_graph, 0, vertex_shader,
                                           fragment_shader, None)} :
          /\ render_graph' = r.rg
          /\ last' = [NoOp EXCEPT !.op = "add_pipeline", !.pre_graph = GraphSize,
                                  !.value = r.handle]
    /\ UNCHANGED <<threadVars, setVars, refVars, mgrVars, histVars, now, panicked,
                   api_handles, add_resource_calls>>

\* the calls of add_resource and add_render_pass so far
CompileVertices == add_resource_calls + Cardinality(DOMAIN render_graph.passes.handle_map)

\* Resource::persistent_with_name, the first named 1 and the second 2
CompileAddResource ==
    /\ CompileVertices < MaxCompileVertices
    /\ AddResource("named", add_resource_calls + 1, MaxCompileResources)

\* render_pass(pipeline) and add_colour_attachment per attachment
CompilePass(attachments, pipeline) ==
    RenderPassBuilder(None, attachments, None, None, None, pipeline)

CompileInputs(queues, shaders, colour_attachments) ==
    [queues                    |-> queues,
     shaders                   |-> shaders,
     vertex_buffer_attachments |-> {},
     colour_attachments        |-> colour_attachments]

CompileInputSet ==
    {CompileInputs(<<>>, {}, {}),
     CompileInputs(<<"Compute", "Render">>, {}, {}),
     CompileInputs(<<"Compute", "Render">>, ShaderHandles \cup {ForeignHandle},
                   ResourceVertexHandles)}

GraphRenderFromGraph(inputs) ==
    /\ panicked = ""
    /\ \E c \in CompiledGraph_render_from_graph(render_graph, inputs) :
          /\ last' = [NoOp EXCEPT !.op = "render_from_graph", !.pre_graph = GraphSize,
                                  !.inputs = inputs,
                                  !.compiled = c]
          /\ panicked' = c.panic
    /\ UNCHANGED <<graphVars, threadVars, setVars, refVars, mgrVars, histVars, now>>

NextCompile ==
    \/ GraphAddShader(None)
    \/ \E vertex_shader \in (IF ShaderHandles = {} THEN {ForeignHandle}
                              ELSE ShaderHandles) :
          GraphAddPipeline(vertex_shader, None)
    \/ CompileAddResource
    \/ /\ CanAddRenderPass
       /\ CompileVertices < MaxCompileVertices
       /\ \E attachments \in AttachmentLists(ResourceVertexHandles) :
          \E pipeline \in (IF PipelineHandles = {} THEN {ForeignHandle}
                           ELSE PipelineHandles) :
             GraphAddRenderPass(CompilePass(attachments, pipeline))
    \/ \E inputs \in CompileInputSet : GraphRenderFromGraph(inputs)

SpecCompile == Init /\ [][NextCompile]_vars

(***************************************************************************)
(* SpecNames: the resource registry (a HandleMap) of one RenderGraph       *)
(* filled by add_resource alone.  A resource is Persistent with the name 1 *)
(* or 2, Persistent without a name, or Dynamic; every call of              *)
(* Resource::persistent_with_name draws a global id of its own, so two     *)
(* resources of one name are two objects.                                  *)
(***************************************************************************)
ResourceNames == 1..2

NamesAddResource(kind, name) == AddResource(kind, name, MaxNamedResources)

NextNames ==
    \/ \E name \in ResourceNames : NamesAddResource("named", name)
    \/ \E kind \in ResourceKinds \ {"named"} : NamesAddResource(kind, 1)

SpecNames == Init /\ [][NextNames]_vars

(***************************************************************************)
(* Helpers of the properties.                                              *)
(***************************************************************************)
Range(seq) == {seq[i] : i \in DOMAIN seq}

BagOfSeq(seq) == [e \in Range(seq) |-> Cardinality({i \in DOMAIN seq : seq[i] = e})]

\* the entries the queue holds for handle h
EntriesOf(queue, h) == {i \in DOMAIN queue : queue[i].resource = h}

\* the last operation was an upkeep of the reference manager, and it returned
UpkeepReturned == last.op = "upkeep" /\ panicked = ""

(***************************************************************************)
(* C1 (SpecRef): every handle upkeep returns had reference_count zero when *)
(* upkeep was called; a handle reactivated after it was queued is not      *)
(* returned, also when upkeep runs after the queued deletion_time.         *)
(***************************************************************************)
C1_UpkeepReturnsOnlyUnreferenced ==
    last.op = "upkeep" =>
        \A i \in DOMAIN last.returned :
            /\ last.returned[i] \in DOMAIN last.pre_all
            /\ last.pre_all[last.returned[i]].reference_count = 0

\* upkeep ran after the deletion_time of a queued entry whose handle had been
\* reactivated: the entry was popped, the handle kept
C1_Witness ==
    /\ UpkeepReturned
    /\ \E i \in DOMAIN last.pre_inactive :
          LET e == last.pre_inactive[i]
          IN  /\ e.deletion_time.is_some
              /\ e.deletion_time.value < last.time
              /\ e.resource \in DOMAIN last.pre_all
              /\ last.pre_all[e.resource].reference_count > 0
              /\ Len(inactive_resources) < Len(last.pre_inactive)
              /\ e.resource \notin Range(last.returned)
              /\ e.resource \in DOMAIN all_resources

(***************************************************************************)
(* C3 (SpecRef), as claimed: reference_count is the number of activate     *)
(* calls minus the number of deactivate calls, and a deactivate that       *)
(* reaches zero pushes exactly one entry whose deletion_time is the time   *)
(* of the call plus the delay of the lifetime class.                       *)
(***************************************************************************)
CountIsNet == \A h \in DOMAIN all_resources : Count(h) = net[h]

\* the last operation was a deactivate of a registered handle
Deactivated ==
    /\ last.op = "deactivate"
    /\ panicked = ""
    /\ last.resource \in DOMAIN all_resources

PushedOne(deletion_time) ==
    BagOfSeq(inactive_resources) =
        BagOfSeq(last.pre_inactive) (+)
        SetToBag({ResourceReference(0, last.resource,
                      all_resources[last.resource].lifetime, deletion_time)})

C3_Original ==
    /\ CountIsNet
    /\ (Deactivated /\ Count(last.resource) = 0) =>
           PushedOne(Some(last.time + LIFETIMES(all_resources[last.resource].lifetime)))

(***************************************************************************)
(* C3 (SpecRef), amended: as claimed for every lifetime class but Forever; *)
(* for Forever the entry pushed has no deletion time (None).  A deactivate *)
(* that leaves the count above zero pushes nothing.                        *)
(***************************************************************************)
C3_CountAndOneEntry ==
    /\ CountIsNet
    /\ (Deactivated /\ Count(last.resource) = 0) =>
           PushedOne(IF all_resources[last.resource].lifetime = "Forever"
                     THEN None
                     ELSE Some(last.time + LIFETIMES(all_resources[last.resource].lifetime)))
    /\ (Deactivated /\ Count(last.resource) > 0) =>
           inactive_resources = last.pre_inactive

\* a second release of a handle at a later time: its count is back at zero
\* and the queue holds the older entry too
C3_Witness ==
    /\ Deactivated
    /\ Count(last.resource) = 0
    /\ last.time > 0
    /\ all_resources[last.resource].lifetime = "Short"
    /\ EntriesOf(last.pre_inactive, last.resource) # {}

(***************************************************************************)
(* C5 (SpecRef): an upkeep at time now returns every handle that had       *)
(* reference_count zero and a queued deletion_time <= now when it was      *)
(* called, whatever later entries the queue holds.                         *)
(***************************************************************************)
C5_UpkeepReturnsAllExpired ==
    UpkeepReturned =>
        \A i \in DOMAIN last.pre_inactive :
            LET e == last.pre_inactive[i]
            IN  ( /\ e.deletion_time.is_some
                  /\ e.deletion_time.value <= last.time
                  /\ e.resource \in DOMAIN last.pre_all
                  /\ last.pre_all[e.resource].reference_count = 0 )
                => e.resource \in Range(last.returned)

(***************************************************************************)
(* C6 (SpecRef): once a Forever resource has dropped to zero (its entry is *)
(* queued), an upkeep completes without a panic, does not return that      *)
(* handle, and returns the other handles that have expired.                *)
(***************************************************************************)
ForeverQueued(queue) == {i \in DOMAIN queue : queue[i].lifetime = "Forever"}

C6_ForeverUpkeepCompletes ==
    (last.op = "upkeep" /\ ForeverQueued(last.pre_inactive) # {}) =>
        /\ panicked = ""
        /\ \A i \in ForeverQueued(last.pre_inactive) :
              last.pre_inactive[i].resource \notin Range(last.returned)
        /\ C5_UpkeepReturnsAllExpired

(***************************************************************************)
(* C7 (SpecRef): upkeep returns a handle no earlier than the delay of its  *)
(* lifetime class after the most recent time its count dropped to zero.    *)
(***************************************************************************)
C7_NotBeforeNewestDeletionTime ==
    last.op = "upkeep" =>
        \A i \in DOMAIN last.returned :
            LET h == last.returned[i]
            IN  /\ h \in DOMAIN last.pre_zero
                /\ last.time >= last.pre_zero[h] + LIFETIMES(last.pre_all[h].lifetime)

\* a handle released, re-acquired and released again at a later time was
\* returned: the queue held two entries of it with different deletion times
C7_Witness ==
    /\ UpkeepReturned
    /\ \E i, j \in DOMAIN last.pre_inactive :
          /\ last.pre_inactive[i].resource = last.pre_inactive[j].resource
          /\ last.pre_inactive[i].deletion_time.value <
                 last.pre_inactive[j].deletion_time.value
          /\ last.pre_inactive[i].resource \in Range(last.returned)
          /\ last.pre_inactive[i].lifetime = "Short"

(***************************************************************************)
(* C8 (SpecRef), as claimed: a registered handle has reference_count zero  *)
(* if and only if the inactive queue holds an entry for it.                *)
(***************************************************************************)
C8_Original ==
    \A h \in DOMAIN all_resources :
        (Count(h) = 0) <=> (EntriesOf(inactive_resources, h) # {})

(***************************************************************************)
(* C8 (SpecRef), amended: a registered handle has reference_count zero if  *)
(* and only if it is absent from the active set, and then the inactive     *)
(* queue holds an entry for it; a handle with a count above zero is in the *)
(* active set and may still have entries of earlier releases in the queue. *)
(***************************************************************************)
C8_ZeroIffInactive ==
    \A h \in DOMAIN all_resources :
        /\ (Count(h) = 0) <=> ~HashSet_contains(active_resources, all_resources[h])
        /\ (Count(h) = 0) => (EntriesOf(inactive_resources, h) # {})

\* a handle re-acquired while the entry of its release is still queued
C8_Witness ==
    /\ last.op = "activate"
    /\ last.resource \in DOMAIN all_resources
    /\ Count(last.resource) > 0
    /\ EntriesOf(inactive_resources, last.resource) # {}

(***************************************************************************)
(* C10 (SpecSet): with handles below the capacity, contains(h) is true if  *)
(* and only if h was pushed and not removed or cleared since, and len() is *)
(* the number of such handles.                                             *)
(***************************************************************************)
C10_ContainsIffLive ==
    panicked = "" =>
        /\ \A h \in 0..(Capacity - 1) : SparseSet_contains(set, h) <=> h \in live
        /\ SparseSet_len(set) = Cardinality(live)

\* a remove of a contained handle that left two handles in the set, the
\* one pushed last moved into the dense position of the removed one
C10_Witness ==
    /\ last.op = "remove"
    /\ last.ret_value.is_some
    /\ last.resource = 0
    /\ live = {1, 2}
    /\ set.dense = <<2, 1>>
    /\ ~SparseSet_contains(set, 0)

(***************************************************************************)
(* C2 (Spec): for every resource made by ResourceManager::create, its      *)
(* reference_count equals the number of live ResourceHandle wrappers,      *)
(* whenever no call of create is under way.                                *)
(***************************************************************************)
C2_CountEqualsLiveWrappers ==
    mgr_pc.at # "create" =>
        \A h \in DOMAIN wrappers :
            h \in DOMAIN all_resources => Count(h) = wrappers[h]

(***************************************************************************)
(* C9 (Spec): the drop of a ResourceManager completes without a panic and  *)
(* calls handler.destroy exactly once on every resource stored in it.      *)
(***************************************************************************)
C9_DropDestroysEveryResourceOnce ==
    last.op = "mgr_drop" =>
        /\ panicked = ""
        /\ last.destroy_calls = Len(last.returned)
        /\ BagOfSeq(SubSeq(destroyed, Len(destroyed) - last.destroy_calls + 1,
                           Len(destroyed)))
               = BagOfSeq(last.returned)

(***************************************************************************)
(* C11 (SpecSet): after every push, remove and clear, dense and            *)
(* dense_objects have the same length; for every live handle h,            *)
(* sparse[h] < dense.len() and dense[sparse[h]] = h; for every handle      *)
(* below the capacity that is not live, sparse[h] is the tombstone; and a  *)
(* remove of a contained handle that was not the last dense element moves  *)
(* the last dense element into the freed position and patches its sparse   *)
(* entry.                                                                  *)
(***************************************************************************)
C11_SparseDenseAgree ==
    /\ Len(set.dense) = Len(set.dense_objects)
    /\ \A h \in live :
          /\ set.sparse[h] < Len(set.dense)
          /\ set.dense[set.sparse[h] + 1] = h
    /\ \A h \in (0..(Capacity - 1)) \ live : set.sparse[h] = set.tombstone
    /\ (last.op = "remove" /\ last.resource \in last.pre_live) =>
          LET pre   == last.pre_set
              freed == pre.sparse[last.resource]
              moved == pre.dense[Len(pre.dense)]
          IN  /\ Len(set.dense) = Len(pre.dense) - 1
              /\ moved # last.resource =>
                     /\ set.dense[freed + 1] = moved
                     /\ set.sparse[moved] = freed
              /\ \A i \in 1..Len(set.dense) : i # freed + 1 => set.dense[i] = pre.dense[i]

\* the first of three stored handles was removed: the handle pushed last
\* was moved to the front of dense and its sparse entry patched
C11_Witness ==
    /\ last.op = "remove"
    /\ last.resource \in last.pre_live
    /\ Len(last.pre_set.dense) = 3
    /\ last.pre_set.sparse[last.resource] = 0
    /\ set.dense[1] = last.pre_set.dense[3]
    /\ set.sparse[set.dense[1]] = 0

(***************************************************************************)
(* C12 (SpecSet): remove(h) of a contained handle returns (h, Some(v)), v  *)
(* the value stored for h, and afterwards contains(h) is false and get(h)  *)
(* is None; remove of a handle that is not contained (never pushed,        *)
(* already removed, or >= capacity) returns (tombstone, None) and leaves   *)
(* the set unchanged.                                                      *)
(***************************************************************************)
C12_RemoveReturns ==
    last.op = "remove" =>
        IF last.resource \in last.pre_live
        THEN /\ last.returned = <<last.resource>>
             /\ last.ret_value = Some(last.pre_stored[last.resource])
             /\ ~SparseSet_contains(set, last.resource)
             /\ SparseSet_get(set, last.resource) = None
        ELSE /\ last.returned = <<set.tombstone>>
             /\ last.ret_value = None
             /\ set = last.pre_set

\* a contained handle that was not the last dense element was removed and
\* its value differed from the value of the last dense element
C12_Witness ==
    /\ last.op = "remove"
    /\ last.resource \in last.pre_live
    /\ last.pre_set.dense[Len(last.pre_set.dense)] # last.resource
    /\ last.pre_stored[last.pre_set.dense[Len(last.pre_set.dense)]]
           # last.pre_stored[last.resource]
    /\ last.ret_value = Some(last.pre_stored[last.resource])

\* a remove of a handle removed before, and of a handle >= capacity
C12_WitnessAbsent ==
    /\ last.op = "remove"
    /\ last.resource \notin last.pre_live
    /\ last.pre_live # {}
    /\ last.returned = <<Capacity>>

(***************************************************************************)
(* C13 (SpecSet): get(h) of a live handle returns the value given at its   *)
(* push, as last written through get_mut(h), whichever other handles were  *)
(* pushed or removed in between; get and get_mut return None for a handle  *)
(* that is unknown, removed or out of range, and get_mut of a live handle  *)
(* returns the reference to its value.                                     *)
(***************************************************************************)
C13_GetReturnsStored ==
    /\ \A h \in SetHandles :
          SparseSet_get(set, h) = IF h \in live THEN Some(stored[h]) ELSE None
    /\ last.op = "get_mut" =>
          IF last.resource \in last.pre_live
          THEN /\ last.ret_value = Some(last.pre_stored[last.resource])
               /\ SparseSet_get(set, last.resource) = Some(last.value)
          ELSE /\ last.ret_value = None
               /\ set = last.pre_set

\* after a remove that moved the last dense element, the handles left hold
\* different values, one of them written through get_mut before the remove
C13_Witness ==
    /\ last.op = "remove"
    /\ last.resource \in last.pre_live
    /\ Len(last.pre_set.dense) = 3
    /\ last.pre_set.sparse[last.resource] = 0
    /\ \E h \in live : \E g \in live :
          /\ stored[h] # stored[g]
          /\ SparseSet_get(set, h) = Some(stored[h])
          /\ SparseSet_get(set, g) = Some(stored[g])

(***************************************************************************)
(* C14 (SpecSet): a push of a handle that is already contained changes     *)
(* neither len(), dense nor the stored value (the new value is discarded)  *)
(* and returns the reference to the existing value.                        *)
(***************************************************************************)
C14_PushContainedIdempotent ==
    (last.op = "push" /\ last.resource \in last.pre_live) =>
        /\ panicked = ""
        /\ set = last.pre_set
        /\ SparseSet_len(set) = SparseSet_len(last.pre_set)
        /\ last.ret_value = Some(last.pre_stored[last.resource])

\* a contained handle was pushed again with a value other than its own
C14_Witness ==
    /\ last.op = "push"
    /\ last.resource \in last.pre_live
    /\ last.value # last.pre_stored[last.resource]
    /\ Len(set.dense) >= 2

(***************************************************************************)
(* C15 (SpecSet): get_all_elements returns exactly the live handles: h is  *)
(* in the result if and only if contains(h), each once.                    *)
(***************************************************************************)
C15_AllElementsAreLiveHandles ==
    panicked = "" =>
        LET all == SparseSet_get_all_elements(set)
        IN  /\ \A h \in SetHandles : (h \in Range(all)) <=> SparseSet_contains(set, h)
            /\ Len(all) = Cardinality(Range(all))

(***************************************************************************)
(* C16 (SpecSet): a set of capacity N holds the handles 0..N-1 at the same *)
(* time; a push of a handle >= N is a fatal error that neither grows       *)
(* sparse nor leaves a stored element that contains() does not report.     *)
(***************************************************************************)
C16_PushBeyondCapacityLeavesSet ==
    /\ (last.op = "push" /\ last.resource < Capacity) => panicked = ""
    /\ (last.op = "push" /\ last.resource >= Capacity) =>
          /\ panicked # ""
          /\ DOMAIN set.sparse = DOMAIN last.pre_set.sparse
          /\ \A i \in DOMAIN set.dense : SparseSet_contains(set, set.dense[i])
          /\ SparseSet_len(set) = SparseSet_len(last.pre_set)

(***************************************************************************)
(* C17 (Spec): a lookup by uuid, by name or by path that finds no          *)
(* registered resource is not a fatal error: the call returns and hands    *)
(* out no handle.                                                          *)
(***************************************************************************)
LookupMissed ==
    \/ last.op = "mgr_get" /\ last.value \notin DOMAIN resource_id_map
    \/ last.op = "mgr_get_name" /\ last.value \notin DOMAIN name_id_map
    \/ last.op = "mgr_get_path" /\ last.value \notin DOMAIN path_id_map

C17_LookupMissIsNotFatal ==
    LookupMissed => panicked = ""

(***************************************************************************)
(* C18 (SpecThreads): under every interleaving of the clones and drops of  *)
(* the threads, an activate or deactivate runs only in the thread that     *)
(* holds the write lock, one at a time; no increment or decrement is lost: *)
(* the reference_count is the initial count plus the clones applied minus  *)
(* the drops applied, and when every thread is idle it is the initial      *)
(* count plus the clones minus the drops.                                  *)
(***************************************************************************)
InCall == {t \in Threads : thread_pc[t] # "idle"}

Applied(op) == Cardinality({t \in Threads : thread_pc[t] = op \o "_written"})

C18_NoLostUpdate ==
    (panicked = "" /\ ThreadResource \in DOMAIN all_resources) =>
        /\ Cardinality(InCall) <= 1
        /\ \A t \in InCall : lock = t
        /\ Count(ThreadResource) =
               initial_count + (clones + Applied("clone")) - (drops + Applied("drop"))
        /\ InCall = {} => Count(ThreadResource) = initial_count + clones - drops

\* after two clones and a drop, with wrappers held by two threads or more,
\* a thread that holds the lock has written the count of its drop back
C18_Witness ==
    /\ clones >= 2
    /\ drops >= 1
    /\ \E t \in Threads : thread_pc[t] = "drop_written" /\ lock = t
    /\ Cardinality({t \in Threads : owned[t] > 0}) >= 2
    /\ Count(ThreadResource) = initial_count + clones - drops - 1

(***************************************************************************)
(* C19 (Spec): the drop of a ResourceHandle wrapper, the last one of a     *)
(* resource included, changes nothing but the reference_count of its       *)
(* resource and the eviction queue: handler.destroy is not called, the     *)
(* arena, the destroy buffer and the lookup maps are as before; a resource *)
(* leaves the arena only in a step of ResourceManager::upkeep or of the    *)
(* drop of the manager.                                                    *)
(***************************************************************************)
Stored(arena) == {h \in 0..(arena.tombstone - 1) : SparseSet_contains(arena, h)}

DropStep ==
    last'.op = "drop" =>
        /\ destroyed' = destroyed
        /\ resources' = resources
        /\ resources_being_destroyed' = resources_being_destroyed
        /\ <<resource_id_map, name_id_map, path_id_map>>' =
               <<resource_id_map, name_id_map, path_id_map>>
        /\ DOMAIN all_resources' = DOMAIN all_resources
        /\ \A g \in DOMAIN all_resources :
              IF g = last'.resource
              THEN all_resources'[g] =
                       [all_resources[g] EXCEPT !.reference_count = @ - 1]
              ELSE all_resources'[g] = all_resources[g]

LeavesArenaOnlyInUpkeepOrDrop ==
    (Stored(resources) \ Stored(resources') # {} \/ Len(destroyed') > Len(destroyed))
        => last'.op \in {"mgr_upkeep", "mgr_drop"}

C19_WrapperDropNeverDestroys ==
    [][DropStep /\ LeavesArenaOnlyInUpkeepOrDrop]_vars

\* the last wrapper of a resource was dropped: the resource is still in the
\* arena and nothing was destroyed
C19_Witness ==
    /\ last.op = "drop"
    /\ wrappers[last.resource] = 0
    /\ SparseSet_contains(resources, last.resource)
    /\ SparseSet_get(resources, last.resource).is_some
    /\ destroyed = <<>>
    /\ panicked = ""

(***************************************************************************)
(* C20 (SpecGraph): for every OnlyOutput(None) attachment of a pass,       *)
(* add_render_pass returns an output vertex that is newly allocated: its   *)
(* handle and its node index belong to no vertex, resource or pass that    *)
(* existed before the call, they differ from those of the pass vertex and  *)
(* of every other output vertex returned and from the handles the other    *)
(* attachments name, and the graph holds a Resource vertex with that       *)
(* handle at that node index.                                              *)
(***************************************************************************)
NewAttachments(pass) ==
    SelectSeq(RenderGraph_resource_iter(pass), PassResource_is_new_resource)

NamedHandles(pass) ==
    {a.resource.value : a \in {b \in Range(RenderGraph_resource_iter(pass)) :
                                   b.resource.is_some}}

C20_NewOutputIsFreshVertex ==
    last.op = "add_render_pass" =>
        /\ Len(last.returned) = last.existing + Len(NewAttachments(last.pass))
        /\ \A k \in 1..Len(NewAttachments(last.pass)) :
              LET v == last.returned[last.existing + k]
              IN  /\ v.handle \notin last.pre_graph.handles
                  /\ v.handle \notin last.pre_graph.resources
                  /\ v.handle \notin last.pre_graph.passes
                  /\ v.handle \notin NamedHandles(last.pass)
                  /\ v.node_index >= last.pre_graph.nodes
                  /\ v.handle # last.vertex.handle
                  /\ v.node_index # last.vertex.node_index
                  /\ \A j \in DOMAIN last.returned :
                        j # last.existing + k =>
                            /\ last.returned[j].handle # v.handle
                            /\ last.returned[j].node_index # v.node_index
                  /\ v.node_index < Len(render_graph.graph.forward_graph.nodes)
                  /\ render_graph.graph.forward_graph.nodes[v.node_index + 1]
                         = Vertex_Red(v.handle)
                  /\ render_graph.vertex_handle_map[v.handle] = v

\* a second pass with an OnlyOutput(None) attachment declared before an
\* attachment that writes an output of the first pass
C20_Witness ==
    /\ last.op = "add_render_pass"
    /\ last.pre_graph.passes # {}
    /\ Len(RenderGraph_resource_iter(last.pass)) = 2
    /\ PassResource_is_new_resource(RenderGraph_resource_iter(last.pass)[1])
    /\ RenderGraph_resource_iter(last.pass)[2].kind = "InputAndOutput"
    /\ last.existing = 1
    /\ Len(last.returned) = 2
    /\ last.returned[2].handle \notin last.pre_graph.handles

(***************************************************************************)
(* Helpers of the render-graph properties: the attachments of the last     *)
(* pass by what add_render_pass makes of them, and the edges at a node.    *)
(***************************************************************************)
\* the outputs that name a resource registered before the call (138-143)
ExistingAttachments(pass) ==
    SelectSeq(RenderGraph_resource_iter(pass),
              LAMBDA a : /\ PassResource_is_output(a)
                         /\ a.resource.is_some
                         /\ a.resource.value \in last.pre_graph.resources)

\* the attachments an output vertex is returned for, in declaration order
OutputAttachments(pass) ==
    SelectSeq(RenderGraph_resource_iter(pass),
              LAMBDA a : \/ PassResource_is_new_resource(a)
                         \/ /\ PassResource_is_output(a)
                            /\ a.resource.is_some
                            /\ a.resource.value \in last.pre_graph.resources)

\* the inputs that name a handle with a vertex in the graph before the call
InputAttachments(pass) ==
    SelectSeq(RenderGraph_resource_iter(pass),
              LAMBDA a : /\ PassResource_is_input(a)
                         /\ a.resource.value \in last.pre_graph.handles)

\* the node indices the forward edges into node come from, in insertion order
IncomingOf(node) ==
    LET es == SelectSeq(render_graph.graph.forward_graph.edges, LAMBDA e : e[2] = node)
    IN  [i \in DOMAIN es |-> es[i][1]]

\* the node indices the forward edges out of node go to, in insertion order
OutgoingOf(node) ==
    LET es == SelectSeq(render_graph.graph.forward_graph.edges, LAMBDA e : e[1] = node)
    IN  [i \in DOMAIN es |-> es[i][2]]

\* the vertices of one colour added since the graph had n nodes
AddedSince(n, colour) ==
    {i \in (n + 1)..Len(render_graph.graph.forward_graph.nodes) :
        render_graph.graph.forward_graph.nodes[i].colour = colour}

\* the resource the registry holds for the handle of a vertex
ResourceOf(v) == render_graph.resources.handle_map[v.handle]

(***************************************************************************)
(* C21 (SpecGraph): for an OnlyOutput(Some(h)) or InputAndOutput(h)        *)
(* attachment whose h is a registered resource, add_render_pass returns    *)
(* the vertex already registered for h (same handle, a node that existed   *)
(* before the call), and a pass without OnlyOutput(None) attachments adds  *)
(* no resource vertex.  The code passes the resource to add_resource       *)
(* (146-148), which registers it under a new handle and adds a vertex.     *)
(***************************************************************************)
C21_ExistingOutputReusesVertex ==
    last.op = "add_render_pass" =>
        /\ \A k \in 1..Len(ExistingAttachments(last.pass)) :
              /\ k <= Len(last.returned)
              /\ last.returned[k].handle = ExistingAttachments(last.pass)[k].resource.value
              /\ last.returned[k].node_index < last.pre_graph.nodes
        /\ Len(NewAttachments(last.pass)) = 0 =>
              AddedSince(last.pre_graph.nodes, "Red") = {}

(***************************************************************************)
(* C22 (SpecGraph): after add_render_pass the edges at the new pass vertex *)
(* are one edge pass -> v per output vertex v returned and one edge        *)
(* r -> pass per OnlyInput or InputAndOutput attachment, r the vertex of   *)
(* the handle it names, and no others.  The code adds an edge into the     *)
(* pass for every attachment that carries a handle (160-163) and one from  *)
(* a Persistent copy of every new output (165-169).                        *)
(***************************************************************************)
C22_EdgesOfNewPass ==
    last.op = "add_render_pass" =>
        /\ BagOfSeq(OutgoingOf(last.vertex.node_index))
               = BagOfSeq([i \in DOMAIN last.returned |-> last.returned[i].node_index])
        /\ BagOfSeq(IncomingOf(last.vertex.node_index))
               = BagOfSeq([i \in DOMAIN InputAttachments(last.pass) |->
                              render_graph.vertex_handle_map[
                                  InputAttachments(last.pass)[i].resource.value].node_index])

(***************************************************************************)
(* C23 (SpecGraph): the output vertices add_render_pass returns are in the *)
(* declaration order of the attachments they are made for (the j-th vertex *)
(* holds a resource made by this call if the j-th output attachment is     *)
(* OnlyOutput(None), and the resource of the handle named otherwise), and  *)
(* the output edges are inserted in that order.  The code returns the      *)
(* vertices of the outputs naming a resource first (146-153).              *)
(***************************************************************************)
C23_OutputsInDeclarationOrder ==
    last.op = "add_render_pass" =>
        /\ Len(last.returned) = Len(OutputAttachments(last.pass))
        /\ \A j \in DOMAIN last.returned :
              LET a == OutputAttachments(last.pass)[j]
              IN  IF PassResource_is_new_resource(a)
                  THEN ResourceOf(last.returned[j])
                           \notin {render_graph.resources.handle_map[x] :
                                      x \in last.pre_graph.resources}
                  ELSE ResourceOf(last.returned[j])
                           = render_graph.resources.handle_map[a.resource.value]
        /\ \A j \in DOMAIN last.returned :
              render_graph.graph.forward_graph.edges[last.pre_graph.edges + j]
                  = <<last.vertex.node_index, last.returned[j].node_index>>

(***************************************************************************)
(* C24 (SpecGraph): every edge of the graph joins a Resource vertex and a  *)
(* Pass vertex.  PassHandle and ResourceHandle are the same type Handle    *)
(* and vertex_handle_map holds both (172, 184), so an attachment naming    *)
(* the handle of a pass vertex gets an edge from that pass (160-163).      *)
(***************************************************************************)
C24_EdgesJoinResourceAndPass ==
    \A i \in DOMAIN render_graph.graph.forward_graph.edges :
        LET e == render_graph.graph.forward_graph.edges[i]
        IN  render_graph.graph.forward_graph.nodes[e[1] + 1].colour
                # render_graph.graph.forward_graph.nodes[e[2] + 1].colour

(***************************************************************************)
(* C25 (SpecGraph): add_render_pass with an attachment naming a handle the *)
(* graph holds no vertex for reports a failure and does not add the pass.  *)
(* The code returns (VertexHandle, Vec<VertexHandle>), skips the handle in *)
(* its filter_maps (141, 162) and adds the pass.                           *)
(***************************************************************************)
NamesAbsentHandle(pass) ==
    \E a \in Range(RenderGraph_resource_iter(pass)) :
        a.resource.is_some /\ a.resource.value \notin last.pre_graph.handles

C25_AbsentResourceIsReported ==
    (last.op = "add_render_pass" /\ NamesAbsentHandle(last.pass)) =>
        /\ last.vertex.handle \notin DOMAIN render_graph.passes.handle_map
        /\ last.vertex.handle \notin DOMAIN render_graph.vertex_handle_map
        /\ Len(render_graph.graph.forward_graph.nodes) = last.pre_graph.nodes

(***************************************************************************)
(* C28 (SpecGraph): when the graph was built by add_render_pass of a pass  *)
(* A whose only attachment is OnlyOutput(None) and then of a pass B whose  *)
(* only attachment is OnlyInput(X), X the handle of the output vertex A    *)
(* returned, the graph holds one resource vertex and the registry one      *)
(* resource.  The code registers the new Dynamic resource twice (134,      *)
(* 150-152) and adds a Persistent copy with its own vertex (165-169).      *)
(***************************************************************************)
ProducerThenConsumer ==
    /\ last.op = "add_render_pass"
    /\ add_resource_calls = 0
    /\ Cardinality(last.pre_graph.passes) = 1
    /\ RenderGraph_resource_iter(last.pass) \in {<<OnlyInput(x)>> : x \in last.pre_graph.handles}
    /\ \E a \in last.pre_graph.passes :
          /\ RenderGraph_resource_iter(render_graph.passes.handle_map[a])
                 = <<OnlyOutput(None)>>
          /\ OutgoingOf(render_graph.vertex_handle_map[a].node_index)
                 = <<render_graph.vertex_handle_map[
                         RenderGraph_resource_iter(last.pass)[1].resource.value].node_index>>

C28_OneNewResource ==
    ProducerThenConsumer =>
        /\ Cardinality(AddedSince(0, "Red")) = 1
        /\ Cardinality(DOMAIN render_graph.resources.handle_map) = 1

(***************************************************************************)
(* Helpers of the compiler properties.                                     *)
(***************************************************************************)
PassHandles == DOMAIN render_graph.passes.handle_map

AttachmentsOf(p) == RenderGraph_resource_iter(render_graph.passes.handle_map[p])

NodeOf(h) == render_graph.vertex_handle_map[h].node_index

\* the nodes g has a path to from the nodes of seen, those included
RECURSIVE Graph_reachable(_, _)
Graph_reachable(g, seen) ==
    LET next == seen \cup {g.edges[i][2] : i \in {j \in DOMAIN g.edges : g.edges[j][1] \in seen}}
    IN  IF next = seen THEN seen ELSE Graph_reachable(g, next)

\* every topological order of g has node from before node to
MustPrecede(g, from, to) == from # to /\ to \in Graph_reachable(g, {from})

PositionsOf(seq, e) == {i \in DOMAIN seq : seq[i] = e}

\* pass p reads the resource of handle h
Reads(p, h) ==
    \E a \in Range(AttachmentsOf(p)) :
        PassResource_is_input(a) /\ a.resource.value = h

\* pass p writes the resource of handle h: an output attachment names h, or
\* h is the handle of an output vertex add_render_pass returned for p
Writes(p, h) ==
    \/ \E a \in Range(AttachmentsOf(p)) :
          PassResource_is_output(a) /\ a.resource = Some(h)
    \/ NodeOf(h) \in Range(OutgoingOf(NodeOf(p)))

Compiled == last.op = "render_from_graph"

\* nothing was made through the device but the command encoder (97)
NothingMaterialized ==
    /\ last.compiled.device.shader_modules = 0
    /\ last.compiled.device.pipeline_layouts = 0
    /\ last.compiled.device.render_pipelines = 0
    /\ last.compiled.device.render_passes = 0

(***************************************************************************)
(* C26 (SpecCompile): when pass A has the one attachment OnlyOutput(None), *)
(* X is the output vertex returned for it and pass B has an OnlyInput(X)   *)
(* attachment, the order render_from_graph walks has A before B: the sort  *)
(* never forces B before A, and B is not visited unless A was visited      *)
(* before it.  The code sorts reverse_graph (100), in which the edges run  *)
(* from consumer to producer (70), so B comes before X and X before A.     *)
(***************************************************************************)
C26_ProducerVisitedBeforeConsumer ==
    Compiled =>
        \A a \in PassHandles : \A b \in PassHandles \ {a} :
        \A x \in ResourceVertexHandles :
            (/\ AttachmentsOf(a) = <<OnlyOutput(None)>>
             /\ OutgoingOf(NodeOf(a)) = <<NodeOf(x)>>
             /\ OnlyInput(x) \in Range(AttachmentsOf(b)))
            => /\ ~MustPrecede(render_graph.graph.reverse_graph, NodeOf(b), NodeOf(a))
               /\ \A i \in PositionsOf(last.compiled.visited, NodeOf(b)) :
                     \E j \in PositionsOf(last.compiled.visited, NodeOf(a)) : j < i

(***************************************************************************)
(* C27 (SpecCompile): for the graph of the two declared resources Surface  *)
(* (handle s) and Texture (handle t) and the one pass P with the           *)
(* attachments OnlyInput(t) and InputAndOutput(s), render_from_graph       *)
(* called with a render queue and a colour attachment bound for every      *)
(* resource handle completes without a panic, the passes it visits are     *)
(* <<P>>, and the graph holds the two declared resources and no other.     *)
(* The code panics at the first Resource vertex it visits (todo!(), 108),  *)
(* and add_render_pass made a third vertex for the output (146-148).       *)
(***************************************************************************)
SurfaceTexturePass ==
    /\ Compiled
    /\ add_resource_calls = 2
    /\ Cardinality(PassHandles) = 1
    /\ \E s \in ResourceVertexHandles : \E t \in ResourceVertexHandles \ {s} :
          /\ HandleMap_get_string_from_handle(render_graph.resources, s) = Some(1)
          /\ HandleMap_get_string_from_handle(render_graph.resources, t) = Some(2)
          /\ \A p \in PassHandles : AttachmentsOf(p) = <<OnlyInput(t), InputAndOutput(s)>>
          /\ {s, t} \subseteq last.inputs.colour_attachments
    /\ Len(last.inputs.queues) > 0

C27_SurfaceTextureCompiles ==
    SurfaceTexturePass =>
        /\ last.compiled.panic = ""
        /\ last.compiled.submitted
        /\ SelectSeq(last.compiled.visited,
                     LAMBDA n : render_graph.graph.forward_graph.nodes[n + 1].colour = "Blue")
               = [i \in 1..1 |-> NodeOf(CHOOSE p \in PassHandles : TRUE)]
        /\ Cardinality(AddedSince(0, "Red")) = 2
        /\ Cardinality(DOMAIN render_graph.resources.handle_map) = 2

(***************************************************************************)
(* C29 (SpecCompile): when the passes declare a dependency cycle (pass A   *)
(* writes R, pass B reads R and writes S, pass A reads S),                 *)
(* render_from_graph fails with the cycle error of the topological sort    *)
(* and makes no shader module, pipeline layout, render pipeline or render  *)
(* pass.  In the code the output of B is a new vertex, not the vertex of S *)
(* (146-148): the graph has no cycle, the sort succeeds and the call       *)
(* panics in the walk instead.                                             *)
(***************************************************************************)
DeclaredCycle ==
    \E a \in PassHandles : \E b \in PassHandles \ {a} :
    \E r \in ResourceVertexHandles : \E s_ \in ResourceVertexHandles \ {r} :
        /\ Writes(a, r)
        /\ Reads(b, r)
        /\ Writes(b, s_)
        /\ Reads(a, s_)

C29_CycleIsReported ==
    (Compiled /\ DeclaredCycle) =>
        /\ last.compiled.panic = "unwrap on Err(Cycle)"
        /\ last.compiled.visited = <<>>
        /\ NothingMaterialized

(***************************************************************************)
(* C30 (SpecCompile): when a pass reads a resource that no pass writes and *)
(* the caller bound no colour attachment for, render_from_graph returns to *)
(* its caller (an error result, no panic) without submitting anything.     *)
(* The code returns () and has no error result: it panics at the first     *)
(* vertex of the walk (108, 112 or 151).                                   *)
(***************************************************************************)
UnsatisfiedInput ==
    \E p \in PassHandles : \E h \in ResourceVertexHandles :
        /\ Reads(p, h)
        /\ ~\E q \in PassHandles : Writes(q, h)
        /\ h \notin last.inputs.colour_attachments

C30_UnsatisfiedInputIsReported ==
    (Compiled /\ UnsatisfiedInput /\ Len(last.inputs.queues) > 0) =>
        /\ panicked = ""
        /\ ~last.compiled.submitted

(***************************************************************************)
(* C31 (SpecCompile): when render_from_graph has processed a pass whose    *)
(* pipeline handle is registered, render_pipelines holds an entry for that *)
(* handle, and the device was asked for exactly one render pipeline and    *)
(* one pipeline layout per distinct pipeline handle of the passes          *)
(* processed.  In the code create_pipeline returns when the handle is NOT  *)
(* in render_pipelines (178-180), so no pipeline is ever made and          *)
(* create_render_pass panics on the lookup (151).                          *)
(***************************************************************************)
PipelineOf(p) == render_graph.passes.handle_map[p].pipeline

\* render_from_graph reached create_pipeline for pass p
PassProcessed(p) ==
    /\ Compiled
    /\ NodeOf(p) \in Range(last.compiled.visited)
    /\ PipelineOf(p) \in PipelineHandles

C31_PipelineMaterializedOnce ==
    \A p \in PassHandles :
        PassProcessed(p) =>
            /\ PipelineOf(p) \in last.compiled.compiled_graph.render_pipelines
            /\ last.compiled.device.render_pipelines
                   = Cardinality({PipelineOf(q) : q \in {r \in PassHandles : PassProcessed(r)}})
            /\ last.compiled.device.pipeline_layouts
                   = last.compiled.device.render_pipelines

(***************************************************************************)
(* C32 (SpecNames): in the resource registry the name index and the        *)
(* reverse index agree: for every handle h that get_string_from_handle     *)
(* gives the name s, get_from_string(s) is the object stored for h, and    *)
(* no other handle is given the name s.  In the code a second add with the *)
(* same name overwrites string_map[s] (43) and leaves the entry of the     *)
(* first handle in handle_to_string_map (44): both handles claim s and     *)
(* get_from_string(s) returns the second object.                           *)
(***************************************************************************)
NamedHandlesOf(hm, s) ==
    {h \in DOMAIN hm.handle_map : HandleMap_get_string_from_handle(hm, h) = Some(s)}

C32_NameIndexAgrees ==
    \A h \in DOMAIN render_graph.resources.handle_map :
        LET s == HandleMap_get_string_from_handle(render_graph.resources, h)
        IN  s.is_some =>
                /\ HandleMap_get_from_string(render_graph.resources, s.value)
                       = HandleMap_get_from_handle(render_graph.resources, h)
                /\ NamedHandlesOf(render_graph.resources, s.value) = {h}

(***************************************************************************)
(* C34 (SpecRef): a call of upkeep returns no handle twice, and every      *)
(* handle it returns was registered when the call began (it was not        *)
(* returned by an earlier call since it was created).  In the code a       *)
(* handle released, re-acquired and released again has two entries in the  *)
(* queue (260-270; activate removes none, 244-250); upkeep pops both, and  *)
(* the test at 281 looks the handle up in active_resources, not in         *)
(* all_resources, so the second entry pushes the handle again (283).       *)
(***************************************************************************)
C34_UpkeepReturnsHandleOnce ==
    UpkeepReturned =>
        /\ \A i \in DOMAIN last.returned : \A j \in DOMAIN last.returned :
              last.returned[i] = last.returned[j] => i = j
        /\ Range(last.returned) \subseteq DOMAIN last.pre_all

(***************************************************************************)
(* C36 (Spec): a create called while fewer than MAX_RESOURCES resources    *)
(* are stored returns without a panic.  Every create stores at most one    *)
(* resource and takes the next id, so before the create that took the id   *)
(* last_resource_id at most last_resource_id - 1 resources were stored.    *)
(* In the code the ids start at 1 and are never reused (172-173), and the  *)
(* arena SparseSet::new(MAX_RESOURCES) takes the handles                   *)
(* 0 .. MAX_RESOURCES - 1: the create with the id MAX_RESOURCES panics in  *)
(* push, whatever was evicted before.                                      *)
(***************************************************************************)
C36_CreateSucceedsBelowCapacity ==
    (last.op = "mgr_create" /\ last_resource_id - 1 < MAX_RESOURCES)
        => panicked = ""

(***************************************************************************)
(* C37 (SpecGraph): when add_render_pass has added pass A and the next     *)
(* add_render_pass adds a pass B with an OnlyInput attachment naming the   *)
(* handle of an output vertex X returned for an OnlyOutput(None)           *)
(* attachment of A, the forward graph after the second call has the edges  *)
(* A -> X and X -> B; and no call removes or reorders a vertex or an edge  *)
(* of the forward graph, so the path stays.                                *)
(***************************************************************************)
ForwardEdges == Range(render_graph.graph.forward_graph.edges)

\* the vertices the last add_render_pass returned for its OnlyOutput(None)
\* attachments: they follow the outputs that name an existing resource
NewOutputVertices ==
    {last.returned[last.existing + k] : k \in 1..Len(NewAttachments(last.pass))}

GraphOnlyGrows ==
    /\ SubSeq(render_graph.graph.forward_graph.nodes', 1,
              Len(render_graph.graph.forward_graph.nodes))
           = render_graph.graph.forward_graph.nodes
    /\ SubSeq(render_graph.graph.forward_graph.edges', 1,
              Len(render_graph.graph.forward_graph.edges))
           = render_graph.graph.forward_graph.edges

ConsumerFollowsProducer ==
    (last.op = "add_render_pass" /\ last'.op = "add_render_pass") =>
        \A x \in NewOutputVertices :
            OnlyInput(x.handle) \in Range(RenderGraph_resource_iter(last'.pass))
                => /\ <<last.vertex.node_index, x.node_index>> \in ForwardEdges'
                   /\ <<x.node_index, last'.vertex.node_index>> \in ForwardEdges'
                   /\ render_graph.graph.forward_graph.nodes'[x.node_index + 1]
                          = Vertex_Red(x.handle)

C37_ConsumerDependsOnProducer ==
    [][GraphOnlyGrows /\ ConsumerFollowsProducer]_vars

\* pass B, added second, reads the one output X of pass A, and the graph
\* has the two edges A -> X and X -> B
C37_Witness ==
    /\ last.op = "add_render_pass"
    /\ Cardinality(last.pre_graph.passes) = 1
    /\ \E a \in last.pre_graph.passes : \E x \in api_handles \cap last.pre_graph.resources :
          /\ OnlyOutput(None) \in Range(AttachmentsOf(a))
          /\ OnlyInput(x) \in Range(RenderGraph_resource_iter(last.pass))
          /\ <<NodeOf(a), NodeOf(x)>> \in ForwardEdges
          /\ <<NodeOf(x), last.vertex.node_index>> \in ForwardEdges

(***************************************************************************)
(* C38 (SpecGraph): the forward graph and the reverse graph hold the same  *)
(* vertices (same kind, same handle) at the same node indices, and        *)
(* <<a, b>> is an edge of the forward graph as many times as <<b, a>> is   *)
(* an edge of the reverse graph.                                           *)
(***************************************************************************)
\* how many times e is an edge of g
EdgeCount(g, e) == Cardinality({i \in DOMAIN g.edges : g.edges[i] = e})

C38_ReverseGraphIsTwin ==
    LET forward == render_graph.graph.forward_graph
        reverse == render_graph.graph.reverse_graph
    IN  /\ forward.nodes = reverse.nodes
        /\ \A a \in Graph_node_indices(forward) : \A b \in Graph_node_indices(forward) :
              EdgeCount(forward, <<a, b>>) = EdgeCount(reverse, <<b, a>>)
        /\ \A e \in Range(forward.edges) \cup Range(reverse.edges) :
              /\ e[1] \in Graph_node_indices(forward)
              /\ e[2] \in Graph_node_indices(forward)

\* a graph of two passes in which one edge occurs twice
C38_Witness ==
    /\ Cardinality(PassHandles) = 2
    /\ \E e \in ForwardEdges :
          /\ EdgeCount(render_graph.graph.forward_graph, e) = 2
          /\ EdgeCount(render_graph.graph.reverse_graph, <<e[2], e[1]>>) = 2
    /\ Len(render_graph.graph.forward_graph.edges) > 2

(***************************************************************************)
(* C39 (SpecGraph): the graph add_resource and add_render_pass have built  *)
(* has no cycle, forward or reversed, render_from_graph called on it never *)
(* ends in the panic of the topological sort (100), and a new pass only    *)
(* gets edges from vertices that existed before its call and to vertices   *)
(* created in its call: every edge into a pass comes from a vertex with a  *)
(* lower index, every edge out of a pass leads to a vertex with a higher   *)
(* index.  In the code add_render_pass adds, for every new output, a       *)
(* vertex for resource.into_persistent() after the pass vertex and an edge *)
(* from it to the pass (165-169): an edge into the pass from a vertex      *)
(* created in the same call.                                               *)
(***************************************************************************)
SortInputs == CompileInputs(<<"Render">>, {}, {})

C39_EdgesOnlyFromExistingVertices ==
    LET forward == render_graph.graph.forward_graph
        reverse == render_graph.graph.reverse_graph
    IN  /\ Graph_is_acyclic(reverse, Graph_node_indices(reverse))
        /\ Graph_is_acyclic(forward, Graph_node_indices(forward))
        /\ \A c \in CompiledGraph_render_from_graph(render_graph, SortInputs) :
              c.panic # "unwrap on Err(Cycle)"
        /\ \A e \in Range(forward.edges) :
              /\ forward.nodes[e[2] + 1].colour = "Blue" => e[1] < e[2]
              /\ forward.nodes[e[1] + 1].colour = "Blue" => e[2] > e[1]

====
